---- MODULE Spec2Model ----
(***************************************************************************)
(* A model of the LinearProgram class of                                   *)
(* src/src/satisfactory/linear-programming/program.ts.                     *)
(*                                                                         *)
(* Numbers are exact rationals <<numerator, denominator>> in lowest terms  *)
(* with a positive denominator.  Number arrays live in a heap and are      *)
(* named by their address, so that two fields holding the same JavaScript  *)
(* array hold the same address.  Indices are 0-based as in the source.     *)
(***************************************************************************)
EXTENDS Integers, Sequences, FiniteSets, TLC

VARIABLES objectiveType, n, coefficients, constant, m, constraints,
          restrictions, isStandardForm, isSimplexForm, heap, last, ops

vars == <<objectiveType, n, coefficients, constant, m, constraints,
          restrictions, isStandardForm, isSimplexForm, heap, last, ops>>

-----------------------------------------------------------------------------
(* Bounds of the model *)

\* the caller adds a variable only while n < MaxN
MaxN == 2
\* the caller adds a constraint only while m < MaxM
MaxM == 2
\* the caller adds a variable or constraint only while n + m < MaxSize
MaxSize == 3
\* the caller performs at most MaxOps operations on the program
MaxOps == 4

\* objective coefficients the caller passes
ObjCoefs == {1}
\* constraint coefficients the caller passes
ConCoefs == {-1, 0, 1}
\* constraint values the caller passes
ConValues == {1, 2}
\* values the caller gives the constant
ConstValues == {1}

-----------------------------------------------------------------------------
(* Types *)

OBJECTIVE_TYPES == {"minimize", "maximize"}
CONSTRAINT_TYPES == {"=", "<=", ">="}
RESTRICTION_TYPES == {"non-negative", "unrestricted"}

-----------------------------------------------------------------------------
(* Numbers *)

Abs(x) == IF x < 0 THEN -x ELSE x

RECURSIVE Gcd(_, _)
Gcd(a, b) == IF b = 0 THEN a ELSE Gcd(b, a % b)

\* the rational a/b (b # 0) in lowest terms
Norm(a, b) ==
  LET g == Gcd(Abs(a), Abs(b))
      s == IF b < 0 THEN -1 ELSE 1
  IN <<(s * a) \div g, (s * b) \div g>>

Num(k) == <<k, 1>>
Zero == Num(0)
One == Num(1)

QAdd(x, y) == Norm(x[1] * y[2] + y[1] * x[2], x[2] * y[2])
QSub(x, y) == Norm(x[1] * y[2] - y[1] * x[2], x[2] * y[2])
QMul(x, y) == Norm(x[1] * y[1], x[2] * y[2])
QDiv(x, y) == Norm(x[1] * y[2], x[2] * y[1])
QNeg(x) == <<-x[1], x[2]>>
QLt(x, y) == x[1] * y[2] < y[1] * x[2]
QLe(x, y) == x[1] * y[2] <= y[1] * x[2]

\* the number Infinity, as x / 0 with x > 0 gives it
Infinity == <<1, 0>>

NumSeq(s) == [i \in 1..Len(s) |-> Num(s[i])]

-----------------------------------------------------------------------------
(* Arrays: 0-based reads, undefined past the end *)

Defined(arr, i) == i >= 0 /\ i < Len(arr)
At(arr, i) == arr[i + 1]
SetAt(arr, i, v) == [arr EXCEPT ![i + 1] = v]

\* Array.prototype.splice(i, 1)
Splice1(arr, i) ==
  IF Defined(arr, i)
  THEN SubSeq(arr, 1, i) \o SubSeq(arr, i + 2, Len(arr))
  ELSE arr

\* Array.prototype.slice(0, k)
Slice0(arr, k) == SubSeq(arr, 1, IF k < Len(arr) THEN k ELSE Len(arr))

\* arr.map((c) => -c)
Negated(arr) == [i \in 1..Len(arr) |-> QNeg(arr[i])]

-----------------------------------------------------------------------------
(* The program as a value: the fields of one LinearProgram and the heap of *)
(* number arrays they point into.                                          *)

Prog ==
  [objectiveType |-> objectiveType, n |-> n, coefficients |-> coefficients,
   constant |-> constant, m |-> m, constraints |-> constraints,
   restrictions |-> restrictions, isStandardForm |-> isStandardForm,
   isSimplexForm |-> isSimplexForm, heap |-> heap]

\* new LinearProgram(objectiveType)
NewProgram(ot) ==
  [objectiveType |-> ot, n |-> 0, coefficients |-> 1, constant |-> Zero,
   m |-> 0, constraints |-> <<>>, restrictions |-> <<>>,
   isStandardForm |-> FALSE, isSimplexForm |-> FALSE, heap |-> <<<<>>>>]

\* a new array with the given contents: the program and the new address
Alloc(p, contents) == [p EXCEPT !.heap = Append(@, contents)]
NewAddr(p) == Len(p.heap) + 1

Coefs(p) == p.heap[p.coefficients]
Row(p, i) == p.heap[At(p.constraints, i).coefficients]

\* arr.push(v) on the array at address a
Push(p, a, v) == [p EXCEPT !.heap[a] = Append(@, v)]

\* outcomes of an operation: the program afterwards, the error raised
\* ("none" on a normal return) and the value returned
Ret(p, ret) == [p |-> p, exc |-> "none", ret |-> ret]
Raise(p, e) == [p |-> p, exc |-> e, ret |-> [kind |-> "void", zero |-> {}]]
Void == [kind |-> "void", zero |-> {}]
Ok(p) == Ret(p, Void)

-----------------------------------------------------------------------------
(* addVariable *)

RECURSIVE AddVariableLoop(_, _, _)
AddVariableLoop(p, constraintCoefficients, i) ==
  IF i >= p.m THEN Ok(p)
  ELSE IF ~Defined(p.constraints, i) THEN Raise(p, "SizeError")
  ELSE IF ~Defined(constraintCoefficients, i) THEN Raise(p, "SizeError")
  ELSE AddVariableLoop(
         Push(p, At(p.constraints, i).coefficients, At(constraintCoefficients, i)),
         constraintCoefficients, i + 1)

\* addVariable without the comparison of the array's length with m
AddVariableUnchecked(p, coefficient, constraintCoefficients, restriction) ==
  LET p1 == [p EXCEPT
               !.isStandardForm = p.isStandardForm /\ restriction = "non-negative",
               !.isSimplexForm = FALSE]
      p2 == [p1 EXCEPT !.n = @ + 1,
                       !.heap[p.coefficients] = Append(@, coefficient),
                       !.restrictions = Append(@, restriction)]
  IN AddVariableLoop(p2, constraintCoefficients, 0)

\* addVariable with the flags assigned after the comparison of the lengths
AddVariableChecksFirst(p, coefficient, constraintCoefficients, restriction) ==
  IF Len(constraintCoefficients) # p.m THEN Raise(p, "SizeError")
  ELSE AddVariableUnchecked(p, coefficient, constraintCoefficients, restriction)

AddVariable(p, coefficient, constraintCoefficients, restriction) ==
  LET p1 == [p EXCEPT
               !.isStandardForm = p.isStandardForm /\ restriction = "non-negative",
               !.isSimplexForm = FALSE]
  IN IF Len(constraintCoefficients) # p.m THEN Raise(p1, "SizeError")
     ELSE LET p2 == [p1 EXCEPT !.n = @ + 1,
                               !.heap[p.coefficients] = Append(@, coefficient),
                               !.restrictions = Append(@, restriction)]
          IN AddVariableLoop(p2, constraintCoefficients, 0)

-----------------------------------------------------------------------------
(* addConstraint: the caller's array, at address a, becomes the row *)

\* addConstraint leaving isStandardForm as it was
AddConstraintKeepsStandard(p, type, value, a) ==
  LET p1 == [p EXCEPT !.isSimplexForm = FALSE]
  IN IF Len(p.heap[a]) # p.n THEN Raise(p1, "SizeError")
     ELSE Ok([p1 EXCEPT !.m = @ + 1,
                        !.constraints = Append(@, [type |-> type, value |-> value,
                                                   coefficients |-> a])])

AddConstraint(p, type, value, a) ==
  LET p1 == [p EXCEPT !.isStandardForm = p.isStandardForm /\ type = "=",
                      !.isSimplexForm = FALSE]
  IN IF Len(p.heap[a]) # p.n THEN Raise(p1, "SizeError")
     ELSE Ok([p1 EXCEPT !.m = @ + 1,
                        !.constraints = Append(@, [type |-> type, value |-> value,
                                                   coefficients |-> a])])

-----------------------------------------------------------------------------
(* standardize *)

\* the column of a slack or artificial variable: 1 at row i, m entries
UnitColumn(mm, i) == [j \in 1..mm |-> IF j = i + 1 THEN One ELSE Zero]

\* ">=" becomes "<=": the value negated, the coefficients a new, negated
\* array
FlipGreaterEqual(p, i) ==
  LET c == At(p.constraints, i)
  IN IF c.type = ">="
     THEN [Alloc(p, Negated(p.heap[c.coefficients])) EXCEPT
             !.constraints[i + 1] =
                [type |-> "<=", value |-> QNeg(c.value),
                 coefficients |-> NewAddr(p)]]
     ELSE p

\* "<=" becomes "=" with a slack variable
AddSlack(p, i) ==
  IF At(p.constraints, i).type = "<="
  THEN AddVariable([p EXCEPT !.constraints[i + 1].type = "="],
                   Zero, UnitColumn(p.m, i), "non-negative")
  ELSE Ok(p)

\* the loop over the constraints, from constraint i on; r is the outcome of
\* the iterations before
RECURSIVE StandardizeConstraints(_, _)
StandardizeConstraints(r, i) ==
  IF r.exc # "none" THEN r
  ELSE IF i >= r.p.m THEN r
  ELSE IF ~Defined(r.p.constraints, i) THEN Raise(r.p, "SizeError")
  ELSE StandardizeConstraints(AddSlack(FlipGreaterEqual(r.p, i), i), i + 1)

\* the negated column i, read over the live constraints array; ok is FALSE
\* when an entry is undefined
RECURSIVE NegatedColumn(_, _, _, _)
NegatedColumn(p, i, k, acc) ==
  IF k >= Len(p.constraints) THEN [ok |-> TRUE, col |-> acc]
  ELSE IF ~Defined(Row(p, k), i) THEN [ok |-> FALSE, col |-> acc]
  ELSE NegatedColumn(p, i, k + 1, Append(acc, QNeg(At(Row(p, k), i))))

\* the variable that stands for the negative part of variable i
AddNegated(p, i, col) ==
  IF ~col.ok THEN Raise(p, "SizeError")
  ELSE AddVariable(p, QNeg(At(Coefs(p), i)), col.col, "non-negative")

\* one iteration of the loop over the variables; the restriction is
\* rewritten before the column is read
RestrictVariable(p, i) ==
  IF ~Defined(Coefs(p), i) THEN Raise(p, "SizeError")
  ELSE IF ~Defined(p.restrictions, i) THEN Raise(p, "SizeError")
  ELSE IF At(p.restrictions, i) = "non-negative" THEN Ok(p)
  ELSE AddNegated([p EXCEPT !.restrictions[i + 1] = "non-negative"], i,
                  NegatedColumn(p, i, 0, <<>>))

\* the loop over the variables, from variable i on; r is the outcome of the
\* iterations before
RECURSIVE StandardizeVariables(_, _)
StandardizeVariables(r, i) ==
  IF r.exc # "none" THEN r
  ELSE IF i >= r.p.n THEN r
  ELSE StandardizeVariables(RestrictVariable(r.p, i), i + 1)

\* "Convert objective to maximize"
MaximizeObjective(p) ==
  IF p.objectiveType = "minimize"
  THEN [Alloc(p, Negated(Coefs(p))) EXCEPT
          !.objectiveType = "maximize",
          !.coefficients = NewAddr(p),
          !.constant = QNeg(p.constant)]
  ELSE p

\* the two assignments that end standardize
SetStandardForm(r) ==
  IF r.exc # "none" THEN r
  ELSE Ok([r.p EXCEPT !.isStandardForm = TRUE, !.isSimplexForm = FALSE])

\* standardize that converts whatever isStandardForm says and negates a
\* minimize objective without making it maximize
StandardizeAgain(p) ==
  SetStandardForm(
    StandardizeVariables(
      StandardizeConstraints(
        Ok(IF p.objectiveType = "minimize"
           THEN [Alloc(p, Negated(Coefs(p))) EXCEPT
                   !.coefficients = NewAddr(p),
                   !.constant = QNeg(p.constant)]
           ELSE p),
        0),
      0))

Standardize(p) ==
  IF p.isStandardForm THEN Ok(p)
  ELSE SetStandardForm(
         StandardizeVariables(
           StandardizeConstraints(Ok(MaximizeObjective(p)), 0), 0))

-----------------------------------------------------------------------------
(* Snapshots *)

\* a snapshot that keeps the program's own arrays instead of copies
SnapshotShared(p) ==
  [n |-> p.n, m |-> p.m, objectiveType |-> p.objectiveType,
   constant |-> p.constant,
   coefficients |-> p.coefficients,
   restrictions |-> p.restrictions,
   constraints |-> p.constraints,
   isStandardForm |-> p.isStandardForm, isSimplexForm |-> p.isSimplexForm]

\* the addresses of the copies getSnapshot makes: the objective's array,
\* then one per constraint
SnapshotOf(p) ==
  [n |-> p.n, m |-> p.m, objectiveType |-> p.objectiveType,
   constant |-> p.constant,
   coefficients |-> Len(p.heap) + 1,
   restrictions |-> p.restrictions,
   constraints |-> [i \in 1..Len(p.constraints) |->
                      [type |-> p.constraints[i].type,
                       value |-> p.constraints[i].value,
                       coefficients |-> Len(p.heap) + 1 + i]],
   isStandardForm |-> p.isStandardForm, isSimplexForm |-> p.isSimplexForm]

\* the program after getSnapshot: its heap holds the copies
GetSnapshot(p) ==
  [p EXCEPT !.heap = @ \o <<Coefs(p)>>
                       \o [i \in 1..Len(p.constraints) |-> Row(p, i - 1)]]

ApplySnapshot(p, snapshot) ==
  [p EXCEPT !.n = snapshot.n, !.m = snapshot.m,
            !.objectiveType = snapshot.objectiveType,
            !.constant = snapshot.constant,
            !.coefficients = snapshot.coefficients,
            !.restrictions = snapshot.restrictions,
            !.constraints = snapshot.constraints,
            !.isStandardForm = snapshot.isStandardForm,
            !.isSimplexForm = snapshot.isSimplexForm]

\* fromSnapshot: a new program, given the fields of the snapshot; h is
\* the heap the snapshot's arrays live in
FromSnapshot(h, snapshot) ==
  ApplySnapshot([NewProgram(snapshot.objectiveType) EXCEPT
                   !.heap = Append(h, <<>>), !.coefficients = Len(h) + 1],
                snapshot)

-----------------------------------------------------------------------------
(* formatToIntermediateSimplex *)

\* "Make all equality values positive": a negative row gets a new, negated
\* array
RECURSIVE FlipNegativeRows(_, _)
FlipNegativeRows(p, k) ==
  IF k >= Len(p.constraints) THEN p
  ELSE LET c == At(p.constraints, k)
       IN IF QLt(c.value, Zero)
          THEN FlipNegativeRows(
                 [Alloc(p, Negated(p.heap[c.coefficients])) EXCEPT
                    !.constraints[k + 1].coefficients = NewAddr(p),
                    !.constraints[k + 1].value = QNeg(c.value)],
                 k + 1)
          ELSE FlipNegativeRows(p, k + 1)

RECURSIVE SumValues(_, _)
SumValues(cs, k) ==
  IF k >= Len(cs) THEN Zero ELSE QAdd(At(cs, k).value, SumValues(cs, k + 1))

QAbs(x) == IF QLt(x, Zero) THEN QNeg(x) ELSE x

\* the reduce that builds the objective: acc is the address of the
\* accumulator.  While the accumulator is empty the callback returns the
\* constraint's own array; afterwards a new array
RECURSIVE ObjectiveReduce(_, _, _)
ObjectiveReduce(p, acc, k) ==
  IF k >= Len(p.constraints) THEN [p |-> p, exc |-> "none", acc |-> acc]
  ELSE
    LET c == p.heap[acc]
        row == Row(p, k)
    IN IF Len(c) = 0
       THEN ObjectiveReduce(p, At(p.constraints, k).coefficients, k + 1)
       ELSE IF \E i \in 0..(Len(c) - 1) : ~Defined(row, i)
       THEN [p |-> p, exc |-> "SizeError", acc |-> acc]
       ELSE ObjectiveReduce(
              Alloc(p, [i \in 1..Len(c) |-> QAdd(c[i], QAbs(row[i]))]),
              NewAddr(p), k + 1)

\* "New constraints": one artificial variable per constraint, from
\* constraint i on; r is the outcome of the iterations before
RECURSIVE AddArtificials(_, _)
AddArtificials(r, i) ==
  IF r.exc # "none" THEN r
  ELSE IF i >= r.p.m THEN r
  ELSE AddArtificials(
         AddVariable(r.p, Zero, UnitColumn(r.p.m, i), "non-negative"), i + 1)

SetSimplexForm(r) ==
  IF r.exc # "none" THEN r ELSE Ok([r.p EXCEPT !.isSimplexForm = TRUE])

\* "-eT * b"
PhaseOneConstant(p) == [p EXCEPT !.constant = QNeg(SumValues(p.constraints, 0))]

\* "(eT * A) * x": the reduce starts from a new, empty array
PhaseOneCoefficients(p) == ObjectiveReduce(Alloc(p, <<>>), NewAddr(p), 0)

\* this.coefficients = the array the reduce returned, then the artificials
PhaseOneObjective(red) ==
  IF red.exc # "none" THEN Raise(red.p, red.exc)
  ELSE SetSimplexForm(
         AddArtificials(Ok([red.p EXCEPT !.coefficients = red.acc]), 0))

\* from "Make all equality values positive" on
FormatStandardForm(r) ==
  IF r.exc # "none" THEN r
  ELSE PhaseOneObjective(
         PhaseOneCoefficients(PhaseOneConstant(FlipNegativeRows(r.p, 0))))

FormatToIntermediateSimplex(p) ==
  IF p.isSimplexForm THEN Ok(p) ELSE FormatStandardForm(Standardize(p))

-----------------------------------------------------------------------------
(* pivot: reads the snapshot, writes the live arrays in place *)

\* the loop over the objective coefficients; r0 is the outcome so far
RECURSIVE PivotCoefficients(_, _, _, _, _, _)
PivotCoefficients(r0, snapshot, r, ars, cs, j) ==
  IF r0.exc # "none" THEN r0
  ELSE IF j >= r0.p.n THEN r0
  ELSE IF ~Defined(r0.p.heap[At(snapshot.constraints, r).coefficients], j)
  THEN Raise(r0.p, "SizeError")
  ELSE IF ~Defined(r0.p.heap[snapshot.coefficients], j)
  THEN Raise(r0.p, "SizeError")
  ELSE PivotCoefficients(
         Ok([r0.p EXCEPT !.heap[r0.p.coefficients][j + 1] =
               QSub(At(r0.p.heap[snapshot.coefficients], j),
                    QDiv(QMul(At(r0.p.heap[At(snapshot.constraints, r).coefficients], j),
                              cs),
                         ars))]),
         snapshot, r, ars, cs, j + 1)

\* the loop over the constraint values; r0 is the outcome so far
RECURSIVE PivotValues(_, _, _, _, _, _, _)
PivotValues(r0, snapshot, r, s, ars, br, i) ==
  IF r0.exc # "none" THEN r0
  ELSE IF i >= r0.p.m THEN r0
  ELSE IF ~Defined(r0.p.constraints, i) THEN Raise(r0.p, "SizeError")
  ELSE IF ~Defined(snapshot.constraints, i) THEN Raise(r0.p, "SizeError")
  ELSE IF ~Defined(r0.p.heap[At(snapshot.constraints, i).coefficients], s)
  THEN Raise(r0.p, "SizeError")
  ELSE PivotValues(
         Ok([r0.p EXCEPT !.constraints[i + 1].value =
               IF i = r THEN QDiv(br, ars)
               ELSE QSub(At(snapshot.constraints, i).value,
                         QDiv(QMul(At(r0.p.heap[At(snapshot.constraints, i).coefficients], s),
                                   br),
                              ars))]),
         snapshot, r, s, ars, br, i + 1)

\* the inner loop reading the pivot column and the pivot row from the
\* arrays it writes, not from the snapshot
RECURSIVE PivotColumnInPlace(_, _, _, _, _, _, _)
PivotColumnInPlace(r0, snapshot, r, s, ars, j, i) ==
  IF r0.exc # "none" THEN r0
  ELSE IF i >= r0.p.m THEN r0
  ELSE PivotColumnInPlace(
         Ok([r0.p EXCEPT !.heap[At(r0.p.constraints, i).coefficients][j + 1] =
               IF i = r
               THEN QDiv(At(Row(r0.p, i), j), ars)
               ELSE QSub(At(Row(r0.p, i), j),
                         QDiv(QMul(At(Row(r0.p, r), j), At(Row(r0.p, i), s)),
                              ars))]),
         snapshot, r, s, ars, j, i + 1)

\* the inner loop over the constraint coefficients: column j, from row i
\* on; r0 is the outcome so far
RECURSIVE PivotColumn(_, _, _, _, _, _, _)
PivotColumn(r0, snapshot, r, s, ars, j, i) ==
  IF r0.exc # "none" THEN r0
  ELSE IF i >= r0.p.m THEN r0
  ELSE IF ~Defined(r0.p.constraints, i) THEN Raise(r0.p, "SizeError")
  ELSE IF ~Defined(snapshot.constraints, i) THEN Raise(r0.p, "SizeError")
  ELSE IF ~Defined(r0.p.heap[At(snapshot.constraints, i).coefficients], j)
  THEN Raise(r0.p, "SizeError")
  ELSE IF ~Defined(r0.p.heap[At(snapshot.constraints, i).coefficients], s)
  THEN Raise(r0.p, "SizeError")
  ELSE PivotColumn(
         Ok([r0.p EXCEPT !.heap[At(r0.p.constraints, i).coefficients][j + 1] =
               IF i = r
               THEN QDiv(At(r0.p.heap[At(snapshot.constraints, i).coefficients], j), ars)
               ELSE QSub(At(r0.p.heap[At(snapshot.constraints, i).coefficients], j),
                         QDiv(QMul(At(r0.p.heap[At(snapshot.constraints, r).coefficients], j),
                                   At(r0.p.heap[At(snapshot.constraints, i).coefficients], s)),
                              ars))]),
         snapshot, r, s, ars, j, i + 1)

\* the outer loop over the constraint coefficients, from column j on
RECURSIVE PivotCells(_, _, _, _, _, _)
PivotCells(r0, snapshot, r, s, ars, j) ==
  IF r0.exc # "none" THEN r0
  ELSE IF j >= r0.p.n THEN r0
  ELSE IF ~Defined(r0.p.heap[At(snapshot.constraints, r).coefficients], j)
  THEN Raise(r0.p, "SizeError")
  ELSE PivotCells(PivotColumn(r0, snapshot, r, s, ars, j, 0),
                  snapshot, r, s, ars, j + 1)

\* the three loops, given the pivot element ars, the objective coefficient
\* cs of the pivot column and the value br of the pivot row
PivotLoops(p, snapshot, r, s, ars, cs, br) ==
  PivotCells(
    PivotValues(
      PivotCoefficients(
        Ok([p EXCEPT !.constant = QAdd(@, QDiv(QMul(cs, br), ars))]),
        snapshot, r, ars, cs, 0),
      snapshot, r, s, ars, br, 0),
    snapshot, r, s, ars, 0)

\* pivot once the snapshot is taken: p holds the copies the snapshot names
PivotSnapshot(p, snapshot, constraintIndex, variableIndex) ==
  IF ~Defined(snapshot.constraints, constraintIndex) THEN Raise(p, "SizeError")
  ELSE IF ~Defined(p.heap[At(snapshot.constraints, constraintIndex).coefficients],
                   variableIndex)
  THEN Raise(p, "SizeError")
  ELSE IF ~Defined(p.heap[snapshot.coefficients], variableIndex)
  THEN Raise(p, "SizeError")
  ELSE PivotLoops(
         p, snapshot, constraintIndex, variableIndex,
         At(p.heap[At(snapshot.constraints, constraintIndex).coefficients],
            variableIndex),
         At(p.heap[snapshot.coefficients], variableIndex),
         At(snapshot.constraints, constraintIndex).value)

Pivot(p0, constraintIndex, variableIndex) ==
  PivotSnapshot(GetSnapshot(p0), SnapshotOf(p0), constraintIndex, variableIndex)

-----------------------------------------------------------------------------
(* solveSimplexRecursive *)

\* the recursion depth after which the model stops following the search
MaxDepth == 12

SetResult(z) == [kind |-> "set", zero |-> z]
Unbounded == [kind |-> "unbounded", zero |-> {}]
Infeasible == [kind |-> "infeasible", zero |-> {}]

\* findIndex with (c) => c >= 0
RECURSIVE FindNonNegative(_, _)
FindNonNegative(arr, i) ==
  IF i >= Len(arr) THEN -1
  ELSE IF QLe(Zero, At(arr, i)) THEN i
  ELSE FindNonNegative(arr, i + 1)

\* coefficients.findIndex((c) => c > 0) from index i on; -1 when none
RECURSIVE FindPositive(_, _)
FindPositive(arr, i) ==
  IF i >= Len(arr) THEN -1
  ELSE IF QLt(Zero, At(arr, i)) THEN i
  ELSE FindPositive(arr, i + 1)

\* the comparison that keeps the largest ratio
RatioGreater(ratio, smallestRatio, smallestRatioIndex) ==
  IF smallestRatioIndex = -1 THEN ratio # Infinity
  ELSE QLt(smallestRatio, ratio)

\* ratio < smallestRatio. While the index is -1 smallestRatio holds
\* Number.MAX_SAFE_INTEGER: every finite number of the model is below it,
\* Infinity is not
RatioLess(ratio, smallestRatio, smallestRatioIndex) ==
  IF smallestRatioIndex = -1 THEN ratio # Infinity
  ELSE QLt(ratio, smallestRatio)

\* the ratio test
RECURSIVE RatioTest(_, _, _, _, _)
RatioTest(p, s, i, smallestRatio, smallestRatioIndex) ==
  IF i >= p.m THEN [exc |-> "none", index |-> smallestRatioIndex]
  ELSE IF ~Defined(p.constraints, i) THEN [exc |-> "SizeError", index |-> -1]
  ELSE IF ~Defined(Row(p, i), s) THEN [exc |-> "SizeError", index |-> -1]
  ELSE
    LET coefficient == At(Row(p, i), s)
        ratio == QDiv(At(p.constraints, i).value, coefficient)
    IN IF QLe(coefficient, Zero)
       THEN RatioTest(p, s, i + 1, smallestRatio, smallestRatioIndex)
       ELSE IF RatioLess(ratio, smallestRatio, smallestRatioIndex)
       THEN RatioTest(p, s, i + 1, ratio, i)
       ELSE RatioTest(p, s, i + 1, smallestRatio, smallestRatioIndex)

\* constraints.every(...) of the leaving-variable test for column i:
\* "true", "false", or "throw" when an undefined entry is met first
RECURSIVE IsUnitColumn(_, _, _, _)
IsUnitColumn(p, i, r, j) ==
  IF j >= Len(p.constraints) THEN "true"
  ELSE IF ~Defined(Row(p, j), i) THEN "throw"
  ELSE LET coefficient == At(Row(p, j), i)
       IN IF coefficient = Zero \/ (j = r /\ coefficient = One)
          THEN IsUnitColumn(p, i, r, j + 1)
          ELSE "false"

RECURSIVE LeavingVariables(_, _, _, _, _)
LeavingVariables(p, zeroVariables, r, i, found) ==
  IF i >= p.n THEN [exc |-> "none", found |-> found]
  ELSE IF ~Defined(Coefs(p), i) THEN [exc |-> "SizeError", found |-> found]
  ELSE IF At(Coefs(p), i) # Zero
  THEN LeavingVariables(p, zeroVariables, r, i + 1, found)
  ELSE IF i \in zeroVariables THEN [exc |-> "SolutionError", found |-> found]
  ELSE IF ~Defined(Row(p, r), i) THEN [exc |-> "SizeError", found |-> found]
  ELSE IF At(Row(p, r), i) = Zero
  THEN LeavingVariables(p, zeroVariables, r, i + 1, found)
  ELSE LET unit == IsUnitColumn(p, i, r, 0)
       IN IF unit = "throw" THEN [exc |-> "SizeError", found |-> found]
          ELSE LeavingVariables(p, zeroVariables, r, i + 1,
                 IF unit = "true" THEN Append(found, i) ELSE found)

RECURSIVE SolveSimplexRecursive(_, _, _)

\* after this.pivot(...): the entering variable leaves the zero set, the
\* leaving variable joins it, and the search goes on
SolvePivoted(r, zeroVariables, depth, firstPositiveCoefficientIndex, leavingVariableIndex) ==
  IF r.exc # "none" THEN r
  ELSE IF firstPositiveCoefficientIndex \notin zeroVariables
  THEN Raise(r.p, "SolutionError")
  ELSE IF leavingVariableIndex \in (zeroVariables \ {firstPositiveCoefficientIndex})
  THEN Raise(r.p, "SolutionError")
  ELSE SolveSimplexRecursive(
         r.p,
         (zeroVariables \ {firstPositiveCoefficientIndex}) \cup {leavingVariableIndex},
         depth + 1)

\* after the search for the leaving variables: exactly one is wanted
SolveLeaving(p, zeroVariables, depth, firstPositiveCoefficientIndex, smallestRatioIndex, lv) ==
  IF lv.exc # "none" THEN Raise(p, lv.exc)
  ELSE IF Len(lv.found) # 1 THEN Raise(p, "SolutionError")
  ELSE SolvePivoted(Pivot(p, smallestRatioIndex, firstPositiveCoefficientIndex),
                    zeroVariables, depth, firstPositiveCoefficientIndex, lv.found[1])

\* after the ratio test
SolveRatio(p, zeroVariables, depth, firstPositiveCoefficientIndex, rt) ==
  IF rt.exc # "none" THEN Raise(p, rt.exc)
  ELSE IF rt.index = -1 THEN Ret(p, Unbounded)
  ELSE SolveLeaving(p, zeroVariables, depth, firstPositiveCoefficientIndex, rt.index,
                    LeavingVariables(p, zeroVariables, rt.index, 0, <<>>))

\* after the search for the first positive coefficient
SolveEntering(p, zeroVariables, depth, firstPositiveCoefficientIndex) ==
  IF firstPositiveCoefficientIndex = -1 THEN Ret(p, SetResult(zeroVariables))
  ELSE SolveRatio(p, zeroVariables, depth, firstPositiveCoefficientIndex,
                  RatioTest(p, firstPositiveCoefficientIndex, 0, Zero, -1))

SolveSimplexRecursive(p, zeroVariables, depth) ==
  IF ~p.isSimplexForm THEN Raise(p, "SolutionError")
  ELSE IF depth > MaxDepth THEN Raise(p, "RangeError")
  ELSE SolveEntering(p, zeroVariables, depth, FindPositive(Coefs(p), 0))

-----------------------------------------------------------------------------
(* solveSimplex *)

\* Array.prototype.sort() without a comparator orders numbers by their
\* decimal strings
RECURSIVE Digits(_)
Digits(x) == IF x < 10 THEN <<x>> ELSE Append(Digits(x \div 10), x % 10)

RECURSIVE LexLess(_, _, _)
LexLess(a, b, i) ==
  IF i > Len(a) THEN i <= Len(b)
  ELSE IF i > Len(b) THEN FALSE
  ELSE IF a[i] # b[i] THEN a[i] < b[i]
  ELSE LexLess(a, b, i + 1)

StringLess(x, y) == LexLess(Digits(x), Digits(y), 1)

\* Array.from(set).sort().reverse()
RECURSIVE SortReverse(_)
SortReverse(S) ==
  IF S = {} THEN <<>>
  ELSE LET last_ == CHOOSE x \in S : \A y \in S \ {x} : StringLess(y, x)
       IN <<last_>> \o SortReverse(S \ {last_})

\* constraints.findIndex(coefficient of column i === 1): the index, -1 when
\* none, -2 when an undefined coefficient is met first
RECURSIVE FindBase(_, _, _)
FindBase(p, i, k) ==
  IF k >= Len(p.constraints) THEN -1
  ELSE IF ~Defined(Row(p, k), i) THEN -2
  ELSE IF At(Row(p, k), i) = One THEN k
  ELSE FindBase(p, i, k + 1)

\* coefficients.findIndex((c, j) => j < numberOfOriginalVariables && c !== 0)
\* of the base row, from index j on; -1 when none
RECURSIVE FindPivotVariable(_, _, _)
FindPivotVariable(row, numberOfOriginalVariables, j) ==
  IF j >= Len(row) THEN -1
  ELSE IF j < numberOfOriginalVariables /\ At(row, j) # Zero THEN j
  ELSE FindPivotVariable(row, numberOfOriginalVariables, j + 1)

\* the outcome of the loop over the artificial variables: the program, the
\* error, the zero set and the rows and columns to remove
CleanupResult(p, exc, zs, constraintsToRemove, variablesToRemove) ==
  [p |-> p, exc |-> exc, zs |-> zs,
   constraintsToRemove |-> constraintsToRemove,
   variablesToRemove |-> variablesToRemove]

RECURSIVE Cleanup(_, _, _, _, _, _)

\* after this.pivot(baseIndex, pivotVariableIndex) for the artificial
\* variable i
CleanupPivoted(r, zs, i, numberOfOriginalVariables, constraintsToRemove, variablesToRemove, pivotVariableIndex) ==
  IF r.exc # "none"
  THEN CleanupResult(r.p, r.exc, zs, constraintsToRemove, variablesToRemove)
  ELSE IF pivotVariableIndex \notin zs
  THEN CleanupResult(r.p, "SolutionError", zs, constraintsToRemove, variablesToRemove)
  ELSE Cleanup(r.p, (zs \ {pivotVariableIndex}) \cup {i}, i + 1,
               numberOfOriginalVariables, constraintsToRemove, variablesToRemove)

\* the artificial variable i is basic in row baseIndex: pivot on an
\* original variable of the row, or mark the row and the column
CleanupBase(p, zs, i, numberOfOriginalVariables, constraintsToRemove, variablesToRemove, baseIndex, pivotVariableIndex) ==
  IF pivotVariableIndex = -1
  THEN Cleanup(p, zs, i + 1, numberOfOriginalVariables,
               constraintsToRemove \cup {baseIndex}, variablesToRemove \cup {i})
  ELSE CleanupPivoted(Pivot(p, baseIndex, pivotVariableIndex), zs, i,
                      numberOfOriginalVariables, constraintsToRemove,
                      variablesToRemove, pivotVariableIndex)

\* after the search for the row of the artificial variable i
CleanupVariable(p, zs, i, numberOfOriginalVariables, constraintsToRemove, variablesToRemove, baseIndex) ==
  IF baseIndex = -2
  THEN CleanupResult(p, "SizeError", zs, constraintsToRemove, variablesToRemove)
  ELSE IF baseIndex = -1
  THEN CleanupResult(p, "SolutionError", zs, constraintsToRemove, variablesToRemove)
  ELSE CleanupBase(p, zs, i, numberOfOriginalVariables, constraintsToRemove,
                   variablesToRemove, baseIndex,
                   FindPivotVariable(Row(p, baseIndex), numberOfOriginalVariables, 0))

\* the loop over the artificial variables that are still basic
Cleanup(p, zs, i, numberOfOriginalVariables, constraintsToRemove, variablesToRemove) ==
  IF i >= p.n
  THEN CleanupResult(p, "none", zs, constraintsToRemove, variablesToRemove)
  ELSE IF i \in zs
  THEN Cleanup(p, zs, i + 1, numberOfOriginalVariables,
               constraintsToRemove, variablesToRemove)
  ELSE CleanupVariable(p, zs, i, numberOfOriginalVariables, constraintsToRemove,
                       variablesToRemove, FindBase(p, i, 0))

RECURSIVE RemoveConstraints(_, _, _)
RemoveConstraints(p, order, k) ==
  IF k > Len(order) THEN p
  ELSE RemoveConstraints([p EXCEPT !.constraints = Splice1(@, order[k])],
                         order, k + 1)

\* constraints.forEach(splice(variableIndex, 1)), each on its own array
RECURSIVE SpliceRows(_, _, _)
SpliceRows(p, variableIndex, k) ==
  IF k >= Len(p.constraints) THEN p
  ELSE SpliceRows(
         [p EXCEPT !.heap[At(p.constraints, k).coefficients] =
                      Splice1(@, variableIndex)],
         variableIndex, k + 1)

RECURSIVE RemoveVariables(_, _, _)
RemoveVariables(p, order, k) ==
  IF k > Len(order) THEN p
  ELSE RemoveVariables(
         SpliceRows([p EXCEPT !.heap[p.coefficients] = Splice1(@, order[k]),
                              !.restrictions = Splice1(@, order[k])],
                    order[k], 0),
         order, k + 1)

\* does every constraint but constraintIndex hold 0 in the column?  An
\* undefined entry is not 0
IsBasisColumn(p, coefficientIndex, constraintIndex) ==
  \A k \in 0..(Len(p.constraints) - 1) :
     \/ (Defined(Row(p, k), coefficientIndex)
         /\ At(Row(p, k), coefficientIndex) = Zero)
     \/ k = constraintIndex

\* the findIndex of the basis loop: the index, -1 when none, -2 when it
\* throws "Basis variable is an intermediate variable"
RECURSIVE FindBasis(_, _, _, _, _)
FindBasis(p, zs, constraintIndex, numberOfOriginalVariables, j) ==
  LET row == Row(p, constraintIndex)
  IN IF j >= Len(row) THEN -1
     ELSE IF At(row, j) # One \/ j \in zs
     THEN FindBasis(p, zs, constraintIndex, numberOfOriginalVariables, j + 1)
     ELSE IF j >= numberOfOriginalVariables THEN -2
     ELSE IF IsBasisColumn(p, j, constraintIndex) THEN j
     ELSE FindBasis(p, zs, constraintIndex, numberOfOriginalVariables, j + 1)

RECURSIVE BasisLoop(_, _, _, _, _, _)
BasisLoop(p, zs, constraintIndex, numberOfAddedVariables, numberOfOriginalVariables, basis) ==
  IF constraintIndex >= numberOfAddedVariables
  THEN [exc |-> "none", basis |-> basis]
  ELSE IF ~Defined(p.constraints, constraintIndex)
  THEN [exc |-> "SizeError", basis |-> basis]
  ELSE
    LET basisIndex == FindBasis(p, zs, constraintIndex,
                                numberOfOriginalVariables, 0)
    IN IF basisIndex < 0 THEN [exc |-> "SolutionError", basis |-> basis]
       ELSE BasisLoop(p, zs, constraintIndex + 1, numberOfAddedVariables,
                      numberOfOriginalVariables, Append(basis, basisIndex))

SeqRange(q) == {q[i] : i \in 1..Len(q)}

\* the reduce over the constraints for coefficient i: the sum, from
\* constraint k on, of the row's entry times the basis variable's coefficient
RECURSIVE SumBasisTerms(_, _, _, _, _)
SumBasisTerms(p, original, basis, i, k) ==
  IF k >= Len(p.constraints) THEN Zero
  ELSE QAdd(QMul(At(Row(p, k), i), At(original, At(basis, k))),
            SumBasisTerms(p, original, basis, i, k + 1))

\* the reduce over the constraints for the constant: the sum, from
\* constraint k on, of the row's value times the basis variable's coefficient
RECURSIVE SumBasisValues(_, _, _, _)
SumBasisValues(p, original, basis, k) ==
  IF k >= Len(p.constraints) THEN Zero
  ELSE QAdd(QMul(At(p.constraints, k).value, At(original, At(basis, k))),
            SumBasisValues(p, original, basis, k + 1))

\* the objective row of phase 2, from the standard form's coefficients and
\* the basis; ok is FALSE when an undefined value is read
RestoredCoefficients(p, original, basis) ==
  LET basisSet == SeqRange(basis)
      count == Len(p.constraints)
      Bad(i) ==
        /\ i \notin basisSet
        /\ \/ ~Defined(original, i)
           \/ \E k \in 0..(count - 1) :
                \/ ~Defined(Row(p, k), i)
                \/ ~Defined(basis, k)
                \/ ~Defined(original, At(basis, k))
      New(i) == IF i \in basisSet THEN Zero
                ELSE QAdd(At(original, i), SumBasisTerms(p, original, basis, i, 0))
  IN IF \E i \in 0..(Len(Coefs(p)) - 1) : Bad(i)
     THEN [ok |-> FALSE, coefficients |-> <<>>]
     ELSE [ok |-> TRUE,
           coefficients |-> [i \in 1..Len(Coefs(p)) |-> New(i - 1)]]

RestoredConstant(p, original, basis) ==
  LET count == Len(p.constraints)
  IN IF \E k \in 0..(count - 1) :
          ~Defined(basis, k) \/ ~Defined(original, At(basis, k))
     THEN [ok |-> FALSE, constant |-> Zero]
     ELSE [ok |-> TRUE, constant |-> SumBasisValues(p, original, basis, 0)]

\* constraints.forEach(coefficients = coefficients.slice(0, count))
RECURSIVE TruncateRows(_, _, _)
TruncateRows(p, count, k) ==
  IF k >= Len(p.constraints) THEN p
  ELSE TruncateRows(
         [Alloc(p, Slice0(Row(p, k), count)) EXCEPT
            !.constraints[k + 1].coefficients = NewAddr(p)],
         count, k + 1)

\* constant + the coefficients of the indices outside the zero set
RECURSIVE IntermediateObjective(_, _, _)
IntermediateObjective(arr, zs, i) ==
  IF i >= Len(arr) THEN Zero
  ELSE QAdd(IF i \in zs THEN Zero ELSE At(arr, i),
            IntermediateObjective(arr, zs, i + 1))

\* the zero set z the second search is about to be called with
SearchPending(z) == [kind |-> "pending", zero |-> z]

\* the last assignments; the second search is pending
SolveSecondPhase(p, zs, numberOfOriginalVariables) ==
  Ret([TruncateRows(p, numberOfOriginalVariables, 0) EXCEPT
         !.n = numberOfOriginalVariables,
         !.isStandardForm = TRUE,
         !.isSimplexForm = TRUE],
      SearchPending(zs))

\* this.constant = the reduce over the constraints
SolveConstant(p, zs, numberOfOriginalVariables, k) ==
  IF ~k.ok THEN Raise(p, "SizeError")
  ELSE SolveSecondPhase([p EXCEPT !.constant = k.constant], zs,
                        numberOfOriginalVariables)

\* this.coefficients = the mapped array
SolveCoefficients(p, original, zs, basis, numberOfOriginalVariables, rc) ==
  IF ~rc.ok THEN Raise(p, "SizeError")
  ELSE SolveConstant(
         [Alloc(p, rc.coefficients) EXCEPT !.coefficients = NewAddr(p)],
         zs, numberOfOriginalVariables,
         RestoredConstant([Alloc(p, rc.coefficients) EXCEPT !.coefficients = NewAddr(p)],
                          original, basis))

\* "Use basis to restore the objective coefficients and constant", p having
\* its objective and restrictions sliced
SolveRestore(p, original, zs, basis, numberOfOriginalVariables) ==
  SolveCoefficients(p, original, zs, basis, numberOfOriginalVariables,
                    RestoredCoefficients(p, original, basis))

\* from "Restore the original form" to the end
SolvePhase2(p, standardForm, zs, basis, numberOfOriginalVariables) ==
  SolveRestore(
    [Alloc(p, Slice0(Coefs(p), numberOfOriginalVariables)) EXCEPT
       !.coefficients = NewAddr(p),
       !.restrictions = Slice0(@, numberOfOriginalVariables)],
    p.heap[standardForm.coefficients], zs, basis, numberOfOriginalVariables)

\* after the basis loop
SolveBasis(p, standardForm, zs, numberOfOriginalVariables, b) ==
  IF b.exc # "none" THEN Raise(p, b.exc)
  ELSE SolvePhase2(p, standardForm,
                   zs \ (numberOfOriginalVariables..(p.n - 1)),
                   b.basis, numberOfOriginalVariables)

\* the marked constraints and variables removed, n and m decreased
Removed(c) ==
  [RemoveVariables(
     RemoveConstraints(c.p, SortReverse(c.constraintsToRemove), 1),
     SortReverse(c.variablesToRemove), 1)
   EXCEPT !.n = @ - Cardinality(c.variablesToRemove),
          !.m = @ - Cardinality(c.constraintsToRemove)]

\* after the loop over the artificial variables, p being Removed(c)
SolveRemoved(p, standardForm, zs, numberOfAddedVariables, numberOfOriginalVariables) ==
  SolveBasis(p, standardForm, zs, numberOfOriginalVariables,
             BasisLoop(p, zs, 0, numberOfAddedVariables,
                       numberOfOriginalVariables, <<>>))

SolveCleaned(c, standardForm, numberOfAddedVariables, numberOfOriginalVariables) ==
  IF c.exc # "none" THEN Raise(c.p, c.exc)
  ELSE SolveRemoved(Removed(c), standardForm, c.zs, numberOfAddedVariables,
                    numberOfOriginalVariables)

\* from the phase-1 result to the end
SolveCleanup(p, standardForm, zs0, numberOfAddedVariables, numberOfOriginalVariables) ==
  SolveCleaned(Cleanup(p, zs0, numberOfOriginalVariables,
                       numberOfOriginalVariables, {}, {}),
               standardForm, numberOfAddedVariables, numberOfOriginalVariables)

\* after the first search: its result returned, or found infeasible, or
\* cleaned up and searched again
SolveIntermediate(r, standardForm, numberOfAddedVariables, numberOfOriginalVariables) ==
  IF r.exc # "none" THEN r
  ELSE IF r.ret.kind # "set" THEN r
  ELSE IF QLt(QAdd(r.p.constant,
                   IntermediateObjective(Coefs(r.p), r.ret.zero, 0)),
              Zero)
  THEN Ret(r.p, Infeasible)
  ELSE SolveCleanup(r.p, standardForm, r.ret.zero,
                    numberOfAddedVariables, numberOfOriginalVariables)

\* the first search, from the zero set of the original variables
SolveFirstPhase(p, standardForm, numberOfAddedVariables, numberOfOriginalVariables) ==
  SolveIntermediate(
    SolveSimplexRecursive(p, 0..(numberOfOriginalVariables - 1), 0),
    standardForm, numberOfAddedVariables, numberOfOriginalVariables)

\* after this.formatToIntermediateSimplex()
SolveFormatted(r, standardForm) ==
  IF r.exc # "none" THEN r
  ELSE SolveFirstPhase(r.p, standardForm, r.p.m, r.p.n - r.p.m)

\* after this.standardize(): the snapshot, then the intermediate form
SolveStandardized(r) ==
  IF r.exc # "none" THEN r
  ELSE SolveFormatted(FormatToIntermediateSimplex(GetSnapshot(r.p)),
                      SnapshotOf(r.p))

\* solveSimplex up to its last statement
SolvePrepared(p) == SolveStandardized(Standardize(p))

\* return this.solveSimplexRecursive(intermediateZeroVariables), where the
\* body got that far
SolveSearched(r) ==
  IF r.exc = "none" /\ r.ret.kind = "pending"
  THEN SolveSimplexRecursive(r.p, r.ret.zero, 0)
  ELSE r

SolveSimplex(p) == SolveSearched(SolvePrepared(p))

-----------------------------------------------------------------------------
(* serialize and deserialize *)

\* the values JSON.stringify writes: the fields of `data`, every array by
\* its contents
Serialize(p) ==
  [objectiveType |-> p.objectiveType,
   coefficients |-> Coefs(p),
   restrictions |-> p.restrictions,
   constraints |-> [i \in 1..Len(p.constraints) |->
                      [type |-> p.constraints[i].type,
                       value |-> p.constraints[i].value,
                       coefficients |-> Row(p, i - 1)]],
   constant |-> p.constant]

RECURSIVE DeserializeVariables(_, _, _)
DeserializeVariables(p, data, i) ==
  IF i >= Len(data.coefficients) THEN Ok(p)
  ELSE IF ~Defined(data.restrictions, i) THEN Raise(p, "DeserializationError")
  ELSE LET r == AddVariable(p, At(data.coefficients, i), <<>>,
                            At(data.restrictions, i))
       IN IF r.exc # "none" THEN r ELSE DeserializeVariables(r.p, data, i + 1)

RECURSIVE DeserializeConstraints(_, _, _)
DeserializeConstraints(p, data, i) ==
  IF i >= Len(data.constraints) THEN Ok(p)
  ELSE LET c == At(data.constraints, i)
           r == AddConstraint(Alloc(p, c.coefficients), c.type, c.value, NewAddr(p))
       IN IF r.exc # "none" THEN r ELSE DeserializeConstraints(r.p, data, i + 1)

\* deserialize of a text that parses to an object with the five fields, each
\* of the right JSON type: the enum and length rules, then the replay
Deserialize(data) ==
  IF data.objectiveType \notin OBJECTIVE_TYPES
  THEN Raise(NewProgram("maximize"), "DeserializationError")
  ELSE IF \E i \in 1..Len(data.restrictions) :
            data.restrictions[i] \notin RESTRICTION_TYPES
  THEN Raise(NewProgram("maximize"), "DeserializationError")
  ELSE IF \E i \in 1..Len(data.constraints) :
            data.constraints[i].type \notin CONSTRAINT_TYPES
  THEN Raise(NewProgram("maximize"), "DeserializationError")
  ELSE IF Len(data.coefficients) # Len(data.restrictions)
  THEN Raise(NewProgram("maximize"), "DeserializationError")
  ELSE IF \E i \in 1..Len(data.constraints) :
            Len(data.constraints[i].coefficients) # Len(data.coefficients)
  THEN Raise(NewProgram("maximize"), "DeserializationError")
  ELSE
    LET r1 == DeserializeVariables(NewProgram(data.objectiveType), data, 0)
    IN IF r1.exc # "none" THEN r1
       ELSE LET r2 == DeserializeConstraints(r1.p, data, 0)
            IN IF r2.exc # "none" THEN r2
               ELSE Ok([r2.p EXCEPT !.constant = data.constant])

\* A text is modelled by what JSON.parse makes of it: `parsed` is "object"
\* for an object, "null" for null, "value" for any other JSON value and
\* "none" for a text that is not JSON; `defects` names the presence and
\* typeof tests the object fails; `data` holds the fields that pass them.
Stringify(data) == [parsed |-> "object", defects |-> {}, data |-> data]

\* the presence and typeof tests of deserialize, in the order of the code
TypeChecks ==
  <<"objectiveType missing", "coefficients missing", "restrictions missing",
    "constraints missing", "constant missing",
    "objectiveType not a string", "coefficients not an array",
    "coefficient not a number", "restrictions not an array",
    "restriction not a string", "constraints not an array",
    "constraint not an object", "constraint null",
    "constraint type missing", "constraint type not a string",
    "constraint value missing", "constraint value not a number",
    "constraint coefficients missing", "constraint coefficients not an array",
    "constraint coefficient not a number", "constant not a number">>

\* the error deserialize throws holds the text it was given
DeserializationError(text) ==
  [p |-> NewProgram("maximize"), exc |-> "DeserializationError",
   ret |-> [kind |-> "error", zero |-> {}, data |-> text]]

WithData(r, text) ==
  IF r.exc = "DeserializationError" THEN DeserializationError(text) ELSE r

\* deserialize, from JSON.parse on
DeserializeText(text) ==
  IF text.parsed = "none" THEN Raise(NewProgram("maximize"), "SyntaxError")
  ELSE IF text.parsed = "value" THEN DeserializationError(text)
  ELSE IF text.parsed = "null" THEN DeserializationError(text)
  ELSE IF \E i \in 1..Len(TypeChecks) : TypeChecks[i] \in text.defects
  THEN DeserializationError(text)
  ELSE WithData(Deserialize(text.data), text)

-----------------------------------------------------------------------------
(* withoutChanges *)

\* the callbacks withoutChanges is run with
CallAddVariable(p) == AddVariable(p, One, UnitColumn(p.m, 0), "unrestricted")
CallAddConstraint(p) ==
  AddConstraint(Alloc(p, [j \in 1..p.n |-> One]), "<=", One, NewAddr(p))
CallThrow(p) == Raise(p, "Error")

Callbacks == {"addVariable", "addConstraint", "standardize", "solveSimplex", "throw"}

Callback(cb, p) ==
  CASE cb = "addVariable" -> CallAddVariable(p)
    [] cb = "addConstraint" -> CallAddConstraint(p)
    [] cb = "standardize" -> Standardize(p)
    [] cb = "solveSimplex" -> SolveSimplex(p)
    [] cb = "throw" -> CallThrow(p)

\* the finally block: the snapshot applied, the callback's outcome kept
Restored(r, snapshot) ==
  [p |-> ApplySnapshot(r.p, snapshot), exc |-> r.exc, ret |-> r.ret]

\* withoutChanges(callback): snapshot, callback, and the snapshot applied
\* whether the callback returned or raised
WithoutChanges(p, cb) ==
  Restored(Callback(cb, GetSnapshot(p)), SnapshotOf(p))

-----------------------------------------------------------------------------
(* The state machine: one program, driven through its public operations *)

\* every field by value
View(p) ==
  [objectiveType |-> p.objectiveType, n |-> p.n, m |-> p.m,
   coefficients |-> Coefs(p), constant |-> p.constant,
   constraints |-> [i \in 1..Len(p.constraints) |->
                      [type |-> p.constraints[i].type,
                       value |-> p.constraints[i].value,
                       coefficients |-> Row(p, i - 1)]],
   restrictions |-> p.restrictions,
   isStandardForm |-> p.isStandardForm, isSimplexForm |-> p.isSimplexForm]

\* the addresses the program holds, the objective's first
Roots(p) ==
  <<p.coefficients>> \o [i \in 1..Len(p.constraints) |-> p.constraints[i].coefficients]

RECURSIVE Distinct(_, _, _)
Distinct(q, k, acc) ==
  IF k > Len(q) THEN acc
  ELSE Distinct(q, k + 1,
                IF q[k] \in SeqRange(acc) THEN acc ELSE Append(acc, q[k]))

IndexOf(q, x) == CHOOSE i \in 1..Len(q) : q[i] = x

\* the same program with the unreachable arrays dropped and the others
\* renumbered in the order of Roots
Collect(p) ==
  LET order == Distinct(Roots(p), 1, <<>>)
  IN [p EXCEPT
        !.heap = [i \in 1..Len(order) |-> p.heap[order[i]]],
        !.coefficients = IndexOf(order, p.coefficients),
        !.constraints = [i \in 1..Len(p.constraints) |->
                           [p.constraints[i] EXCEPT
                              !.coefficients = IndexOf(order, @)]]]

\* the fields take the values of q
Assign(q) ==
  /\ objectiveType' = q.objectiveType
  /\ n' = q.n
  /\ coefficients' = q.coefficients
  /\ constant' = q.constant
  /\ m' = q.m
  /\ constraints' = q.constraints
  /\ restrictions' = q.restrictions
  /\ isStandardForm' = q.isStandardForm
  /\ isSimplexForm' = q.isSimplexForm
  /\ heap' = q.heap

SetProg(p) == Assign(Collect(p))

\* what the last operation was, how it ended and the program before it
Record(op, args, r) ==
  /\ last' = [op |-> op, args |-> args, exc |-> r.exc, ret |-> r.ret,
              pre |-> View(Prog)]
  /\ ops' = ops + 1

\* the operation op, called with args, ended as r says
Finish(op, args, r) == SetProg(r.p) /\ Record(op, args, r)

\* the arrays a caller passes where `count` numbers are expected: every
\* array of that length over ConCoefs, and one too short and one too long
ArrayInputs(count) ==
  {NumSeq(q) : q \in [1..count -> ConCoefs]}
    \cup {[j \in 1..(count + 1) |-> One]}
    \cup (IF count > 0 THEN {[j \in 1..(count - 1) |-> One]} ELSE {})

CanGrow == n + m < MaxSize

\* the number of operations of a behaviour is bounded
CanCall == ops < MaxOps

Init ==
  \E ot \in OBJECTIVE_TYPES :
    /\ objectiveType = ot
    /\ n = 0
    /\ coefficients = 1
    /\ constant = Zero
    /\ m = 0
    /\ constraints = <<>>
    /\ restrictions = <<>>
    /\ isStandardForm = FALSE
    /\ isSimplexForm = FALSE
    /\ heap = <<<<>>>>
    /\ last = [op |-> "constructor", args |-> <<ot>>, exc |-> "none",
               ret |-> Void, pre |-> View(NewProgram(ot))]
    /\ ops = 0

DoAddVariable ==
  /\ CanCall /\ n < MaxN /\ CanGrow
  /\ \E c \in ObjCoefs, col \in ArrayInputs(m), r \in RESTRICTION_TYPES :
       Finish("addVariable", <<Num(c), col, r>>, AddVariable(Prog, Num(c), col, r))

DoAddConstraint ==
  /\ CanCall /\ m < MaxM /\ CanGrow
  /\ \E t \in CONSTRAINT_TYPES, v \in ConValues, row \in ArrayInputs(n) :
       Finish("addConstraint", <<t, Num(v), row>>,
              AddConstraint(Alloc(Prog, row), t, Num(v), NewAddr(Prog)))

DoSetConstant ==
  /\ CanCall
  /\ \E v \in ConstValues :
       Finish("constant", <<Num(v)>>, Ok([Prog EXCEPT !.constant = Num(v)]))

DoStandardize == CanCall /\ Finish("standardize", <<>>, Standardize(Prog))

DoSolveSimplex == CanCall /\ Finish("solveSimplex", <<>>, SolveSimplex(Prog))

DoWithoutChanges ==
  /\ CanCall
  /\ \E cb \in Callbacks :
       Finish("withoutChanges", <<cb>>, WithoutChanges(Prog, cb))

\* the persisted form of "maximize 2x + 3y subject to x + y <= 4, x, y
\* non-negative"
TwoPhaseScenario ==
  [objectiveType |-> "maximize",
   coefficients |-> <<Num(2), Num(3)>>,
   restrictions |-> <<"non-negative", "non-negative">>,
   constraints |-> <<[type |-> "<=", value |-> Num(4),
                      coefficients |-> <<One, One>>]>>,
   constant |-> Zero]

\* the texts deserialize is given: the scenario, the program's own
\* serialization, and that text with one rule broken
Texts ==
  LET d == Serialize(Prog)
  IN {TwoPhaseScenario, d,
      [d EXCEPT !.objectiveType = "other"],
      [d EXCEPT !.restrictions = Append(@, "non-negative")],
      [d EXCEPT !.coefficients = Append(@, One)]}

\* a text that is refused builds no program: the one at hand stays
Deserialized(r) == IF r.exc = "none" THEN r ELSE [r EXCEPT !.p = Prog]

DoDeserialize ==
  /\ CanCall
  /\ \E data \in Texts : Finish("deserialize", <<data>>, Deserialized(Deserialize(data)))

Next ==
  \/ DoAddVariable
  \/ DoAddConstraint
  \/ DoSetConstant
  \/ DoStandardize
  \/ DoSolveSimplex
  \/ DoWithoutChanges
  \/ DoDeserialize

Spec == Init /\ [][Next]_vars

-----------------------------------------------------------------------------
(* deserialize on its own: every text of a bounded set, read once *)

MaxReads == 1

\* the numbers arrays of a text hold, up to MaxN of them
TextArrays == UNION {[1..k -> {One}] : k \in 0..MaxN}

TextRestrictions ==
  UNION {[1..k -> RESTRICTION_TYPES \cup {"other"}] : k \in 0..MaxN}

TextConstraints ==
  {<<>>} \cup {<<[type |-> t, value |-> One, coefficients |-> a]>> :
                 t \in CONSTRAINT_TYPES \cup {"other"}, a \in TextArrays}

\* the objects with five fields of the right JSON types
TextData ==
  [objectiveType : OBJECTIVE_TYPES \cup {"other"},
   coefficients : TextArrays,
   restrictions : TextRestrictions,
   constraints : TextConstraints,
   constant : {One}]

\* texts of every kind: not JSON, JSON but no object, an object failing one
\* or two of the presence and typeof tests, and the well-typed objects
CodecTexts ==
  {[parsed |-> k, defects |-> {}, data |-> TwoPhaseScenario] :
     k \in {"none", "value", "null"}}
    \cup {[parsed |-> "object", defects |-> {TypeChecks[i], TypeChecks[j]},
           data |-> TwoPhaseScenario] : i, j \in 1..Len(TypeChecks)}
    \cup {Stringify(d) : d \in TextData}

DoDeserializeText ==
  /\ ops < MaxReads
  /\ \E text \in CodecTexts :
       Finish("deserialize", <<text>>, Deserialized(DeserializeText(text)))

CodecNext == DoDeserializeText

CodecSpec == Init /\ [][CodecNext]_vars

-----------------------------------------------------------------------------
(* solveSimplexRecursive on its own: a tableau in simplex form is loaded    *)
(* and every step is one call of the search                                 *)

\* the program whose fields have the values of the view v, each array its
\* own
Loaded(v) ==
  [objectiveType |-> v.objectiveType, n |-> v.n, coefficients |-> 1,
   constant |-> v.constant, m |-> v.m,
   constraints |-> [i \in 1..Len(v.constraints) |->
                      [type |-> v.constraints[i].type,
                       value |-> v.constraints[i].value,
                       coefficients |-> i + 1]],
   restrictions |-> v.restrictions,
   isStandardForm |-> v.isStandardForm, isSimplexForm |-> v.isSimplexForm,
   heap |-> <<v.coefficients>>
              \o [i \in 1..Len(v.constraints) |-> v.constraints[i].coefficients]]

\* the fields have the values of q
Holds(q) ==
  /\ objectiveType = q.objectiveType
  /\ n = q.n
  /\ coefficients = q.coefficients
  /\ constant = q.constant
  /\ m = q.m
  /\ constraints = q.constraints
  /\ restrictions = q.restrictions
  /\ isStandardForm = q.isStandardForm
  /\ isSimplexForm = q.isSimplexForm
  /\ heap = q.heap

\* a maximize tableau in simplex form: objective c, rows a with values b
Tableau(c, a, b) ==
  [objectiveType |-> "maximize", n |-> Len(c), m |-> Len(a),
   coefficients |-> NumSeq(c), constant |-> Zero,
   constraints |-> [i \in 1..Len(a) |->
                      [type |-> "=", value |-> Num(b[i]),
                       coefficients |-> NumSeq(a[i])]],
   restrictions |-> [j \in 1..Len(c) |-> "non-negative"],
   isStandardForm |-> TRUE, isSimplexForm |-> TRUE]

\* a degenerate tableau of four rows and ten columns; the basic variables
\* of its rows are 7, 5, 2 and 1
DegenerateTableau ==
  [view |-> Tableau(<<-1, 0, 0, 1, 2, 0, -1, 0, 2, -2>>,
                    << <<-2, 0, 0, 1, -2, 0, 2, 1, 0, -1>>,
                       <<0, 0, 0, -1, 2, 1, 2, 0, 1, 0>>,
                       <<2, 0, 1, 1, -1, 0, 0, 0, 0, -1>>,
                       <<-2, 1, 0, 2, -2, 0, -2, 0, -1, -1>> >>,
                    <<0, 0, 0, 0>>),
   zero |-> {0, 3, 4, 6, 8, 9}]

\* the tableaus of MaxM rows whose first MaxN columns are the zero
\* variables and whose last MaxM columns are the basis, values 0 or 1
SmallTableaus ==
  {[view |-> Tableau(c \o [i \in 1..MaxM |-> 0],
                     [i \in 1..MaxM |-> a[i] \o [j \in 1..MaxM |-> IF j = i THEN 1 ELSE 0]],
                     b),
    zero |-> 0..(MaxN - 1)] :
     c \in [1..MaxN -> ConCoefs],
     a \in [1..MaxM -> [1..MaxN -> ConCoefs]],
     b \in [1..MaxM -> {0, 1}]}

\* "maximize x" with the rows x + y = b and x + z = 1 and the basis
\* {y, z}, for a finite b and for b = Infinity
LargeValueTableaus ==
  {[view |-> [Tableau(<<1, 0, 0>>, << <<1, 1, 0>>, <<c, 0, 1>> >>, <<0, 1>>)
                EXCEPT !.constraints[1].value = b],
    zero |-> {0}] : b \in {Num(2), Infinity}, c \in {0, 1}}

SearchTableaus == SmallTableaus \cup {DegenerateTableau} \cup LargeValueTableaus

SearchInit ==
  \E t \in SearchTableaus :
    /\ Holds(Loaded(t.view))
    /\ last = [op |-> "solveSimplexRecursive", args |-> <<t.zero>>,
               exc |-> "pending", ret |-> Void, pre |-> t.view, bases |-> {}]
    /\ ops = 0

\* one call of solveSimplexRecursive with its recursive call cut off: the
\* outcome "RangeError" stands for "the search goes on from r.p"
SearchIteration(p, zeroVariables) == SolveSimplexRecursive(p, zeroVariables, MaxDepth)

\* the zero variables with the entering variable put in and the leaving
\* variable taken out
ZeroAfterSwapped(zeroVariables, firstPositiveCoefficientIndex, lv) ==
  (zeroVariables \ {lv.found[1]}) \cup {firstPositiveCoefficientIndex}

\* the zero variables the recursive call is given
ZeroAfter(zeroVariables, firstPositiveCoefficientIndex, lv) ==
  (zeroVariables \ {firstPositiveCoefficientIndex}) \cup {lv.found[1]}

ZeroRatio(p, zeroVariables, firstPositiveCoefficientIndex, rt) ==
  ZeroAfter(zeroVariables, firstPositiveCoefficientIndex,
            LeavingVariables(p, zeroVariables, rt.index, 0, <<>>))

NextZero(p, zeroVariables) ==
  ZeroRatio(p, zeroVariables, FindPositive(Coefs(p), 0),
            RatioTest(p, FindPositive(Coefs(p), 0), 0, Zero, -1))

\* the call returns or raises, or calls itself; the calls nest MaxDepth deep
\* at most
Searched(r) ==
  /\ SetProg(r.p)
  /\ ops' = ops + 1
  /\ IF r.exc = "RangeError" /\ ops < MaxDepth
     THEN last' = [last EXCEPT !.args = <<NextZero(Prog, last.args[1])>>,
                               !.bases = @ \cup {last.args[1]}]
     ELSE last' = [last EXCEPT !.exc = r.exc, !.ret = r.ret]

Searching == last.op = "solveSimplexRecursive" /\ last.exc = "pending"

DoSearch == Searching /\ Searched(SearchIteration(Prog, last.args[1]))

SearchNext == DoSearch

\* the search is a synchronous recursion: it returns, raises, or exhausts
\* the call stack (RangeError)
SearchSpec == SearchInit /\ [][SearchNext]_vars

-----------------------------------------------------------------------------
(* Vocabulary of the properties *)

\* the persisted fields of a program given by value
Persisted(v) ==
  [objectiveType |-> v.objectiveType, coefficients |-> v.coefficients,
   restrictions |-> v.restrictions, constraints |-> v.constraints,
   constant |-> v.constant]

\* the array lengths of a program given by value agree with n and m
SizesAgree(v) ==
  /\ Len(v.coefficients) = v.n
  /\ Len(v.restrictions) = v.n
  /\ Len(v.constraints) = v.m
  /\ \A i \in 1..Len(v.constraints) : Len(v.constraints[i].coefficients) = v.n

Did(op) == last.op = op
Returned(op) == last.op = op /\ last.exc = "none"

\* column j of the program holds 1 at row i and 0 at every other row
UnitAt(v, j, i) ==
  \A k \in 1..Len(v.constraints) :
    /\ Defined(v.constraints[k].coefficients, j)
    /\ At(v.constraints[k].coefficients, j) = (IF k = i THEN One ELSE Zero)

-----------------------------------------------------------------------------
(* C1: after every public operation, whether it returned or raised,       *)
(* coefficients and restrictions have length n, there are m constraints   *)
(* and every constraint has n coefficients.                                *)
C1_SizesAgree == SizesAgree(View(Prog))

(* C2: solveSimplex on "maximize 2x + 3y subject to x + y <= 4, x, y      *)
(* non-negative" returns a zero set of size 1 whose basic solution is     *)
(* y = 4, x = 0 with objective value 12.                                   *)
C2_TwoPhaseScenario ==
  (Did("solveSimplex") /\ Persisted(last.pre) = TwoPhaseScenario
     /\ SizesAgree(last.pre) /\ ~last.pre.isSimplexForm)
  => /\ last.exc = "none"
     /\ last.ret.kind = "set"
     /\ Cardinality(last.ret.zero) = 1
     /\ 0 \in last.ret.zero
     /\ 1 \notin last.ret.zero
     /\ \E i \in 1..Len(constraints) :
          UnitAt(View(Prog), 1, i) /\ constraints[i].value = Num(4)
     /\ constant = Num(12)

(* C3: solveSimplex on a program with one non-negative variable x and the *)
(* constraints x <= 1 and x >= 2 returns "infeasible".                     *)
C3_Infeasible ==
  (Did("solveSimplex") /\ SizesAgree(last.pre) /\ ~last.pre.isSimplexForm
     /\ last.pre.restrictions = <<"non-negative">>
     /\ last.pre.constraints =
          <<[type |-> "<=", value |-> Num(1), coefficients |-> <<One>>],
            [type |-> ">=", value |-> Num(2), coefficients |-> <<One>>]>>)
  => (last.exc = "none" /\ last.ret.kind = "infeasible")

(* C4: solveSimplex on "maximize x", x non-negative, without constraints, *)
(* returns "unbounded".                                                    *)
C4_Unbounded ==
  (Did("solveSimplex") /\ SizesAgree(last.pre) /\ ~last.pre.isSimplexForm
     /\ last.pre.objectiveType = "maximize"
     /\ last.pre.coefficients = <<One>>
     /\ last.pre.restrictions = <<"non-negative">>
     /\ last.pre.constraints = <<>>)
  => (last.exc = "none" /\ last.ret.kind = "unbounded")

(* C5: whenever solveSimplex returns a set Z, Z is a subset of 0..n-1 and  *)
(* has n - m elements, every variable outside Z has a unit column, with   *)
(* distinct rows for distinct variables, every right-hand side is >= 0,   *)
(* and giving 0 to the variables of Z and each row's right-hand side to   *)
(* its basic variable satisfies every constraint.                          *)
BasicRow(v, j) == CHOOSE i \in 1..Len(v.constraints) : UnitAt(v, j, i)

RECURSIVE RowValue(_, _, _, _)
RowValue(v, zs, k, j) ==
  IF j >= v.n THEN Zero
  ELSE QAdd(IF j \in zs THEN Zero
            ELSE QMul(At(v.constraints[k].coefficients, j),
                      v.constraints[BasicRow(v, j)].value),
            RowValue(v, zs, k, j + 1))

IsBasicSolution(v, zs) ==
  LET basic == (0..(v.n - 1)) \ zs
  IN /\ zs \subseteq 0..(v.n - 1)
     /\ Cardinality(zs) = v.n - v.m
     /\ Len(v.constraints) = v.m
     /\ \A j \in basic : \E i \in 1..v.m : UnitAt(v, j, i)
     /\ \A j1, j2 \in basic : j1 # j2 => BasicRow(v, j1) # BasicRow(v, j2)
     /\ \A k \in 1..v.m : QLe(Zero, v.constraints[k].value)
     /\ \A k \in 1..v.m : RowValue(v, zs, k, 0) = v.constraints[k].value

C5_ResultIsBasicSolution ==
  (Returned("solveSimplex") /\ last.ret.kind = "set")
  => IsBasicSolution(View(Prog), last.ret.zero)

\* solveSimplex returned a set for a program with variables and two
\* constraints, one variable being basic
C5_Witness ==
  /\ Returned("solveSimplex") /\ last.ret.kind = "set"
  /\ last.pre.n >= 1 /\ m = 2
  /\ last.ret.zero # {} /\ last.ret.zero # 0..(n - 1)

(* C6: addVariable raises SizeError exactly when the array it is given    *)
(* has a length other than m, addConstraint exactly when the array it is  *)
(* given has a length other than n; otherwise the call returns.           *)
C6_SizeErrorIff ==
  /\ Did("addVariable") =>
       /\ last.exc \in {"none", "SizeError"}
       /\ (last.exc = "SizeError") <=> (Len(last.args[2]) # last.pre.m)
  /\ Did("addConstraint") =>
       /\ last.exc \in {"none", "SizeError"}
       /\ (last.exc = "SizeError") <=> (Len(last.args[3]) # last.pre.n)

\* addVariable was refused for an array longer than the m >= 1 constraints
C6_Witness ==
  /\ Did("addVariable") /\ last.exc = "SizeError"
  /\ last.pre.m >= 1 /\ Len(last.args[2]) > last.pre.m

(* C7: a successful addVariable(c, col, r) adds 1 to n, appends c, r and  *)
(* col[i] to coefficients, restrictions and row i, and leaves m, the      *)
(* types, the values and the earlier entries alone; a successful          *)
(* addConstraint(t, v, row) adds 1 to m, appends {t, v, row} and leaves   *)
(* n, coefficients, restrictions and the earlier constraints alone.       *)
C7_AddFrame ==
  LET pre == last.pre
      post == View(Prog)
  IN /\ Returned("addVariable") =>
          /\ post.n = pre.n + 1
          /\ post.m = pre.m
          /\ post.coefficients = Append(pre.coefficients, last.args[1])
          /\ post.restrictions = Append(pre.restrictions, last.args[3])
          /\ Len(post.constraints) = Len(pre.constraints)
          /\ \A i \in 1..Len(pre.constraints) :
               /\ post.constraints[i].type = pre.constraints[i].type
               /\ post.constraints[i].value = pre.constraints[i].value
               /\ i <= Len(last.args[2]) =>
                    post.constraints[i].coefficients =
                      Append(pre.constraints[i].coefficients, last.args[2][i])
     /\ Returned("addConstraint") =>
          /\ post.m = pre.m + 1
          /\ post.n = pre.n
          /\ post.coefficients = pre.coefficients
          /\ post.restrictions = pre.restrictions
          /\ post.constraints =
               Append(pre.constraints,
                      [type |-> last.args[1], value |-> last.args[2],
                       coefficients |-> last.args[3]])

(* C8: withoutChanges(action) leaves every field of the program as it was *)
(* before the call, whatever the action did, returns what the action      *)
(* returned and raises what the action raised.                            *)
C8_WithoutChangesRestores ==
  [][last'.op = "withoutChanges" =>
       LET r == Callback(last'.args[1], Prog)
       IN /\ View(Prog') = View(Prog)
          /\ last'.exc = r.exc
          /\ last'.ret = r.ret]_vars

\* withoutChanges ran solveSimplex, which returned a set, on a program
\* with two constraints that was not in simplex form
C8_Witness ==
  /\ Did("withoutChanges") /\ last.args = <<"solveSimplex">>
  /\ last.exc = "none" /\ last.ret.kind = "set"
  /\ m = 2 /\ n >= 1 /\ ~isSimplexForm

(* C9: standardize() called right after standardize() leaves the          *)
(* serialized state as the first call left it.                             *)
C9_StandardizeIdempotent ==
  [][(last.op = "standardize" /\ last'.op = "standardize") =>
       Serialize(Prog') = Serialize(Prog)]_vars

\* standardize called on a program with variables and a constraint that
\* an earlier standardize has put in standard form
C9_Witness ==
  /\ ops >= 3 /\ Did("standardize")
  /\ last.pre.isStandardForm /\ ~last.pre.isSimplexForm
  /\ last.pre.m >= 1 /\ last.pre.n >= 2

(* C10: after a standardize() that starts with isStandardForm false, the  *)
(* objective is maximize, every constraint is '=', every restriction is   *)
(* non-negative, m is unchanged, n has grown by the number of constraints *)
(* that were not '=' plus the number of unrestricted variables,           *)
(* isStandardForm is true and isSimplexForm is false.                     *)
NotEqualities(cs) == Cardinality({i \in 1..Len(cs) : cs[i].type # "="})
Unrestricted(rs) == Cardinality({i \in 1..Len(rs) : rs[i] = "unrestricted"})

C10_StandardizePost ==
  (Did("standardize") /\ ~last.pre.isStandardForm) =>
    /\ last.exc = "none"
    /\ objectiveType = "maximize"
    /\ \A i \in 1..Len(constraints) : constraints[i].type = "="
    /\ \A i \in 1..Len(restrictions) : restrictions[i] = "non-negative"
    /\ m = last.pre.m
    /\ n = last.pre.n
           + NotEqualities(last.pre.constraints)
           + Unrestricted(last.pre.restrictions)
    /\ isStandardForm
    /\ ~isSimplexForm

(* C11: in every reachable state, isStandardForm implies that the         *)
(* objective is maximize, every constraint is '=' and every restriction   *)
(* is non-negative, and isSimplexForm implies isStandardForm.             *)
C11_FlagsSound ==
  /\ isStandardForm =>
       /\ objectiveType = "maximize"
       /\ \A i \in 1..Len(constraints) : constraints[i].type = "="
       /\ \A i \in 1..Len(restrictions) : restrictions[i] = "non-negative"
  /\ isSimplexForm => isStandardForm

\* solveSimplex has left a program with variables and constraints in
\* simplex form
C11_Witness ==
  /\ Did("solveSimplex") /\ isSimplexForm /\ isStandardForm
  /\ m >= 1 /\ n >= 2 /\ last.pre.objectiveType = "minimize"

(* C12: after any call of addVariable or addConstraint, returned or       *)
(* raised, isSimplexForm is false; isStandardForm is its value before     *)
(* AND (restriction = non-negative), respectively AND (type = '=').       *)
C12_AddFlags ==
  /\ Did("addVariable") =>
       /\ ~isSimplexForm
       /\ isStandardForm = (last.pre.isStandardForm /\ last.args[3] = "non-negative")
  /\ Did("addConstraint") =>
       /\ ~isSimplexForm
       /\ isStandardForm = (last.pre.isStandardForm /\ last.args[1] = "=")

\* addConstraint was refused on a program in simplex form, with a type
\* other than '='
C12_Witness ==
  /\ Did("addConstraint") /\ last.exc = "SizeError"
  /\ last.pre.isSimplexForm /\ last.pre.isStandardForm
  /\ last.args[1] # "="

(* C13: for every program reachable through the public operations,        *)
(* deserialize(serialize(P)) succeeds and the program it returns           *)
(* serializes to exactly the text serialize(P).                            *)
RoundTrip(r, text) == r.exc = "none" /\ Serialize(r.p) = text

C13_RoundTrip == RoundTrip(Deserialize(Serialize(Prog)), Serialize(Prog))

(* C14: every text that is malformed or breaks a structural rule (not a   *)
(* non-null object, a missing field, a field of the wrong type, an        *)
(* invalid enum value, coefficients and restrictions of different         *)
(* lengths, a constraint with another number of coefficients) makes       *)
(* deserialize fail with a DeserializationError holding the text, never   *)
(* with another error, and no program is produced; every other text       *)
(* returns a program.                                                     *)
WellFormed(text) ==
  /\ text.parsed = "object"
  /\ text.defects = {}
  /\ text.data.objectiveType \in OBJECTIVE_TYPES
  /\ \A i \in 1..Len(text.data.restrictions) :
       text.data.restrictions[i] \in RESTRICTION_TYPES
  /\ Len(text.data.restrictions) = Len(text.data.coefficients)
  /\ \A i \in 1..Len(text.data.constraints) :
       /\ text.data.constraints[i].type \in CONSTRAINT_TYPES
       /\ Len(text.data.constraints[i].coefficients) = Len(text.data.coefficients)

C14_DeserializeErrors ==
  Did("deserialize") /\ last.args[1] \in CodecTexts =>
    IF WellFormed(last.args[1])
    THEN last.exc = "none" /\ Persisted(View(Prog)) = last.args[1].data
    ELSE /\ last.exc = "DeserializationError"
         /\ last.ret.data = last.args[1]
         /\ View(Prog) = last.pre

(* C15: no array held by a program is shared with an array the caller    *)
(* holds or with a snapshot: after addConstraint(type, value,             *)
(* coefficients) a push onto the caller's array does not change the       *)
(* program and an addVariable on the program does not change the caller's *)
(* array; after fromSnapshot(snapshot) an addVariable on the program does *)
(* not change the snapshot.                                               *)
\* the program after the caller has pushed a number onto the array at a
CallerPush(p, a) == Push(p, a, One)

\* the arrays of a snapshot, by value
SnapshotArrays(h, snapshot) ==
  [coefficients |-> h[snapshot.coefficients],
   constraints |-> [i \in 1..Len(snapshot.constraints) |->
                      h[snapshot.constraints[i].coefficients]]]

AddConstraintOwns(p, row, a, r) ==
  r.exc = "none" =>
    /\ View(CallerPush(r.p, a)) = View(r.p)
    /\ AddVariable(r.p, One, UnitColumn(r.p.m, 0), "non-negative").p.heap[a] = row

FromSnapshotOwns(h, snapshot, q) ==
  SnapshotArrays(AddVariable(q, One, UnitColumn(q.m, 0), "non-negative").p.heap,
                 snapshot)
    = SnapshotArrays(h, snapshot)

C15_NoSharing ==
  /\ \A t \in CONSTRAINT_TYPES, v \in ConValues, row \in ArrayInputs(n) :
       AddConstraintOwns(Prog, row, NewAddr(Prog),
                         AddConstraint(Alloc(Prog, row), t, Num(v), NewAddr(Prog)))
  /\ FromSnapshotOwns(GetSnapshot(Prog).heap, SnapshotOf(Prog),
                      FromSnapshot(GetSnapshot(Prog).heap, SnapshotOf(Prog)))

(* C16: the simplex search terminates on every tableau in simplex form    *)
(* and never comes back to a basis it has left, also on degenerate        *)
(* tableaus whose ratio test has ties.                                    *)
C16_SearchTerminates ==
  /\ Searching => last.args[1] \notin last.bases
  /\ Did("solveSimplexRecursive") => last.exc # "RangeError"

(* C17: pivot(r, s) with a_rs # 0 computes every new cell from the        *)
(* tableau before the pivot: constant' = constant + c_s.b_r/a_rs,         *)
(* c_j' = c_j - a_rj.c_s/a_rs, b_r' = b_r/a_rs, b_i' = b_i - a_is.b_r/a_rs,*)
(* a_rj' = a_rj/a_rs, a_ij' = a_ij - a_rj.a_is/a_rs; column s becomes the *)
(* unit column of row r with c_s' = 0; n, m, the types, the restrictions, *)
(* the objective type and the flags are unchanged.                        *)
PivotCell(v, r, s, i, j) ==
  IF i = r
  THEN QDiv(v.constraints[r + 1].coefficients[j + 1],
            v.constraints[r + 1].coefficients[s + 1])
  ELSE QSub(v.constraints[i + 1].coefficients[j + 1],
            QDiv(QMul(v.constraints[r + 1].coefficients[j + 1],
                      v.constraints[i + 1].coefficients[s + 1]),
                 v.constraints[r + 1].coefficients[s + 1]))

PivotValue(v, r, s, i) ==
  IF i = r
  THEN QDiv(v.constraints[r + 1].value, v.constraints[r + 1].coefficients[s + 1])
  ELSE QSub(v.constraints[i + 1].value,
            QDiv(QMul(v.constraints[i + 1].coefficients[s + 1],
                      v.constraints[r + 1].value),
                 v.constraints[r + 1].coefficients[s + 1]))

PivotPost(v, w, r, s) ==
  /\ w.constant = QAdd(v.constant,
                       QDiv(QMul(v.coefficients[s + 1], v.constraints[r + 1].value),
                            v.constraints[r + 1].coefficients[s + 1]))
  /\ \A j \in 0..(v.n - 1) :
       w.coefficients[j + 1] =
         QSub(v.coefficients[j + 1],
              QDiv(QMul(v.constraints[r + 1].coefficients[j + 1], v.coefficients[s + 1]),
                   v.constraints[r + 1].coefficients[s + 1]))
  /\ \A i \in 0..(v.m - 1) :
       /\ w.constraints[i + 1].value = PivotValue(v, r, s, i)
       /\ w.constraints[i + 1].type = v.constraints[i + 1].type
       /\ Len(w.constraints[i + 1].coefficients) = v.n
       /\ \A j \in 0..(v.n - 1) :
            w.constraints[i + 1].coefficients[j + 1] = PivotCell(v, r, s, i, j)
  /\ UnitAt(w, s, r + 1)
  /\ w.coefficients[s + 1] = Zero
  /\ Len(w.coefficients) = v.n /\ Len(w.constraints) = v.m
  /\ w.n = v.n /\ w.m = v.m
  /\ w.restrictions = v.restrictions
  /\ w.objectiveType = v.objectiveType
  /\ w.isStandardForm = v.isStandardForm
  /\ w.isSimplexForm = v.isSimplexForm

\* the column and the row the search pivots on in program p
PivotColumnOf(p) == FindPositive(Coefs(p), 0)
PivotRowOf(p) == RatioTest(p, FindPositive(Coefs(p), 0), 0, Zero, -1).index

RECURSIVE ColumnAbsSum(_, _, _)
ColumnAbsSum(cs, j, k) ==
  IF k >= Len(cs) THEN Zero
  ELSE QAdd(QAbs(At(At(cs, k).coefficients, j)), ColumnAbsSum(cs, j, k + 1))

ObjectiveIsAbsSum(w) ==
  /\ w.constant = QNeg(SumValues(w.constraints, 0))
  /\ \A j \in 0..(w.n - w.m - 1) :
       /\ Defined(w.coefficients, j)
       /\ \A k \in 1..Len(w.constraints) : Defined(w.constraints[k].coefficients, j)
       /\ At(w.coefficients, j) = ColumnAbsSum(w.constraints, j, 0)

FormatObjective(r) == r.exc = "none" => ObjectiveIsAbsSum(View(r.p))

C18_PhaseOneObjective ==
  ~isSimplexForm => FormatObjective(FormatToIntermediateSimplex(Prog))

(* C19: after formatToIntermediateSimplex on a program of m constraints,  *)
(* for every m >= 0, m = 1 included: every value is >= 0, n has grown by  *)
(* exactly m, the new columns form the identity, every new variable has   *)
(* objective coefficient 0 and restriction non-negative, the columns      *)
(* before them are those of the standard form, negated in the rows whose  *)
(* value was negative, and isSimplexForm is true.                         *)
IdentityAppended(v, w) ==
  /\ w.isSimplexForm
  /\ w.n = v.n + v.m /\ w.m = v.m /\ Len(w.constraints) = v.m
  /\ Len(w.restrictions) = w.n
  /\ \A i \in 1..Len(w.constraints) :
       /\ QLe(Zero, w.constraints[i].value)
       /\ w.constraints[i].value = QAbs(v.constraints[i].value)
       /\ Len(w.constraints[i].coefficients) = w.n
       /\ Slice0(w.constraints[i].coefficients, v.n) =
            (IF QLt(v.constraints[i].value, Zero)
             THEN Negated(v.constraints[i].coefficients)
             ELSE v.constraints[i].coefficients)
  /\ \A i \in 1..v.m :
       /\ UnitAt(w, v.n + i - 1, i)
       /\ Defined(w.coefficients, v.n + i - 1)
       /\ At(w.coefficients, v.n + i - 1) = Zero
       /\ Defined(w.restrictions, v.n + i - 1)
       /\ At(w.restrictions, v.n + i - 1) = "non-negative"

FormatShape(r0, r) ==
  (r0.exc = "none" /\ r.exc = "none") => IdentityAppended(View(r0.p), View(r.p))

C19_PhaseOneShape ==
  ~isSimplexForm => FormatShape(Standardize(Prog), FormatToIntermediateSimplex(Prog))

(* C20: standardize goes through the constraints in index order: every   *)
(* '>=' constraint has its value and coefficients negated; the k-th       *)
(* constraint that is not '=' gets exactly one slack variable, at index   *)
(* n0 + k - 1, non-negative, with objective coefficient 0 and the unit    *)
(* column of that row; '=' constraints get no slack and are unchanged.    *)
\* the number of constraints among the first i that are not '='
SlackRank(v, i) == Cardinality({k \in 1..i : v.constraints[k].type # "="})

SlacksAdded(v, w) ==
  /\ w.m = v.m /\ Len(w.constraints) = Len(v.constraints)
  /\ w.n = v.n + SlackRank(v, Len(v.constraints))
  /\ \A i \in 1..Len(v.constraints) :
       /\ w.constraints[i].type = "="
       /\ Len(w.constraints[i].coefficients) = w.n
       /\ w.constraints[i].value =
            (IF v.constraints[i].type = ">=" THEN QNeg(v.constraints[i].value)
             ELSE v.constraints[i].value)
       /\ Slice0(w.constraints[i].coefficients, v.n) =
            (IF v.constraints[i].type = ">=" THEN Negated(v.constraints[i].coefficients)
             ELSE v.constraints[i].coefficients)
       /\ v.constraints[i].type # "=" =>
            /\ UnitAt(w, v.n + SlackRank(v, i) - 1, i)
            /\ Defined(w.coefficients, v.n + SlackRank(v, i) - 1)
            /\ At(w.coefficients, v.n + SlackRank(v, i) - 1) = Zero
            /\ Defined(w.restrictions, v.n + SlackRank(v, i) - 1)
            /\ At(w.restrictions, v.n + SlackRank(v, i) - 1) = "non-negative"

ConstraintsStandardized(v, r) == r.exc = "none" => SlacksAdded(v, View(r.p))

C20_StandardizeConstraints ==
  ~isStandardForm =>
    ConstraintsStandardized(View(MaximizeObjective(Prog)),
                            StandardizeConstraints(Ok(MaximizeObjective(Prog)), 0))

(* C21: standardize then goes through the variables in index order, after *)
(* the slacks were added: a variable that was unrestricted keeps its      *)
(* objective coefficient and its column and becomes non-negative, and the *)
(* k-th such variable gets one companion, at index n1 + k - 1,            *)
(* non-negative, with the negated objective coefficient and the negated   *)
(* column; a variable that was non-negative gets no companion.            *)
\* the number of variables among the first j that are unrestricted
CompanionRank(v, j) ==
  Cardinality({k \in 1..j : v.restrictions[k] = "unrestricted"})

\* entry j of an array that has one, whatever its length
Entry(arr, j) == IF j \in 1..Len(arr) THEN <<arr[j]>> ELSE <<>>

CompanionsAdded(v, w) ==
  /\ w.m = v.m /\ Len(w.constraints) = Len(v.constraints)
  /\ w.n = v.n + CompanionRank(v, v.n)
  /\ \A j \in 1..v.n :
       /\ Entry(w.restrictions, j) = <<"non-negative">>
       /\ Entry(w.coefficients, j) = Entry(v.coefficients, j)
       /\ Entry(v.coefficients, j) # <<>>
       /\ \A i \in 1..Len(v.constraints) :
            /\ Entry(w.constraints[i].coefficients, j) =
                 Entry(v.constraints[i].coefficients, j)
            /\ Entry(v.constraints[i].coefficients, j) # <<>>
       /\ v.restrictions[j] = "unrestricted" =>
            /\ Entry(w.restrictions, v.n + CompanionRank(v, j)) = <<"non-negative">>
            /\ Entry(w.coefficients, v.n + CompanionRank(v, j)) =
                 <<QNeg(v.coefficients[j])>>
            /\ \A i \in 1..Len(v.constraints) :
                 Entry(w.constraints[i].coefficients, v.n + CompanionRank(v, j)) =
                   <<QNeg(v.constraints[i].coefficients[j])>>

VariablesStandardized(r1, r) ==
  (r1.exc = "none" /\ Len(r1.p.restrictions) = r1.p.n /\ r.exc = "none")
    => CompanionsAdded(View(r1.p), View(r.p))

\* the outcome of the loop over the constraints, and of the loop over the
\* variables that follows it
AfterConstraints == StandardizeConstraints(Ok(MaximizeObjective(Prog)), 0)
AfterVariables == StandardizeVariables(AfterConstraints, 0)

C21_StandardizeVariables ==
  ~isStandardForm => VariablesStandardized(AfterConstraints, AfterVariables)

(* C22: a step of the search returns the zero set it was given, and       *)
(* leaves the tableau as it is, exactly when no objective coefficient is  *)
(* strictly positive; otherwise the variable that enters (the one the     *)
(* step takes out of the zero set) is the lowest index whose objective    *)
(* coefficient is strictly positive.                                      *)
\* the lowest index with a strictly positive objective coefficient, -1
\* when there is none
LowestPositive(v) ==
  LET S == {j \in 0..(Len(v.coefficients) - 1) : QLt(Zero, v.coefficients[j + 1])}
  IN IF S = {} THEN -1 ELSE CHOOSE j \in S : \A k \in S : j <= k

ReturnedZeroSet(zeroVariables) ==
  /\ last'.exc = "none" /\ last'.ret = SetResult(zeroVariables)
  /\ View(Prog') = View(Prog)

C22_EnteringVariable ==
  [][Searching =>
       /\ ReturnedZeroSet(last.args[1]) <=> (LowestPositive(View(Prog)) = -1)
       /\ Searching' =>
            last.args[1] \ last'.args[1] = {LowestPositive(View(Prog))}]_vars

\* the search has pivoted and then returned a zero set that is not the one
\* it started with
C22_Witness ==
  /\ Did("solveSimplexRecursive") /\ last.exc = "none" /\ last.ret.kind = "set"
  /\ ops >= 2 /\ last.ret.zero # 0..(MaxN - 1)

(* C23: in a step of the search with entering column s, the row that      *)
(* leaves is the lowest row among those with the least value/coefficient  *)
(* over the rows whose coefficient in column s is strictly positive, and  *)
(* the step returns "unbounded" exactly when no row has a strictly        *)
(* positive coefficient in column s.                                      *)
\* the rows of v with a strictly positive coefficient in column s
PositiveRows(v, s) ==
  {i \in 0..(Len(v.constraints) - 1) :
     QLt(Zero, v.constraints[i + 1].coefficients[s + 1])}

RowRatio(v, s, i) ==
  QDiv(v.constraints[i + 1].value, v.constraints[i + 1].coefficients[s + 1])

\* the lowest row among those of the least ratio
MinRatioRow(v, s) ==
  CHOOSE i \in PositiveRows(v, s) :
    \A k \in PositiveRows(v, s) :
      /\ QLe(RowRatio(v, s, i), RowRatio(v, s, k))
      /\ RowRatio(v, s, k) = RowRatio(v, s, i) => i <= k

RatioRule(v, s) ==
  /\ (last'.exc = "none" /\ last'.ret = Unbounded) <=> PositiveRows(v, s) = {}
  /\ Searching' => UnitAt(View(Prog'), s, MinRatioRow(v, s) + 1)

C23_RatioTest ==
  [][(Searching /\ LowestPositive(View(Prog)) # -1) =>
       RatioRule(View(Prog), LowestPositive(View(Prog)))]_vars

(* C24: in a step of the search that has chosen the entering column and   *)
(* the leaving row r, a SolutionError is raised exactly when the number   *)
(* of variables outside the zero set whose column is the unit column of   *)
(* row r is not one; when it is one, that variable leaves and the step    *)
(* pivots without error, also when a variable of the zero set has the     *)
(* objective coefficient 0.                                               *)
\* the variables outside the zero set whose column is the unit column of
\* row r
BasicAt(v, zeroVariables, r) ==
  {j \in (0..(v.n - 1)) \ zeroVariables : UnitAt(v, j, r + 1)}

\* the step went on to the recursive call
Pivoted == Searching' \/ last'.exc = "RangeError"

LeavingRule(v, zeroVariables, s, r) ==
  /\ last'.exc = "SolutionError" <=> Cardinality(BasicAt(v, zeroVariables, r)) # 1
  /\ Cardinality(BasicAt(v, zeroVariables, r)) = 1 =>
       /\ Pivoted
       /\ Searching' =>
            last'.args[1] = (zeroVariables \ {s}) \cup BasicAt(v, zeroVariables, r)

\* the step has an entering column and a leaving row
RowChosen == LowestPositive(View(Prog)) # -1 /\ PivotRowOf(Prog) # -1

C24_LeavingVariable ==
  [][(Searching /\ RowChosen) =>
       LeavingRule(View(Prog), last.args[1], PivotColumnOf(Prog), PivotRowOf(Prog))]_vars

(* C25: at the start of every step of the search, in both phases of       *)
(* solveSimplex, the zero set holds exactly n - m indices, all of them in *)
(* 0..n-1, and each of the m variables outside it is basic (objective     *)
(* coefficient 0, unit column); a pivot step takes one index out of the   *)
(* zero set and puts one in.                                              *)
ZeroSetBasic(v, zeroVariables) ==
  /\ Cardinality(zeroVariables) = v.n - v.m
  /\ zeroVariables \subseteq 0..(v.n - 1)
  /\ \A j \in (0..(v.n - 1)) \ zeroVariables :
       /\ Entry(v.coefficients, j + 1) = <<Zero>>
       /\ \E i \in 1..Len(v.constraints) : UnitAt(v, j, i)

OneExchanged(zeroVariables, nextZeroVariables) ==
  /\ Cardinality(zeroVariables \ nextZeroVariables) = 1
  /\ Cardinality(nextZeroVariables \ zeroVariables) = 1

RECURSIVE SearchKeepsBasis(_, _, _)

\* r is the outcome of the step from p; the search is followed MaxDepth
\* steps
StepKeepsBasis(p, zeroVariables, depth, r) ==
  (r.exc = "RangeError" /\ depth < MaxDepth) =>
    /\ OneExchanged(zeroVariables, NextZero(p, zeroVariables))
    /\ SearchKeepsBasis(r.p, NextZero(p, zeroVariables), depth + 1)

SearchKeepsBasis(p, zeroVariables, depth) ==
  /\ ZeroSetBasic(View(p), zeroVariables)
  /\ StepKeepsBasis(p, zeroVariables, depth, SearchIteration(p, zeroVariables))

\* the first search of solveSimplex, r being the outcome of
\* formatToIntermediateSimplex
FirstSearchKeepsBasis(r) ==
  r.exc = "none" => SearchKeepsBasis(r.p, 0..(r.p.n - r.p.m - 1), 0)

\* r is the outcome of standardize
FormattedKeepsBasis(r) ==
  r.exc = "none" =>
    FirstSearchKeepsBasis(FormatToIntermediateSimplex(GetSnapshot(r.p)))

\* the second search, r being the outcome of solveSimplex up to it
SecondSearchKeepsBasis(r) ==
  (r.exc = "none" /\ r.ret.kind = "pending") =>
    SearchKeepsBasis(r.p, r.ret.zero, 0)

C25_ZeroSetIsNonBasis ==
  /\ FormattedKeepsBasis(Standardize(Prog))
  /\ SecondSearchKeepsBasis(SolvePrepared(Prog))

(* C26: after the pivot of a step of the search, the entering variable is *)
(* not in the zero set and the leaving variable is in it.  (As stated,    *)
(* with the two memberships the other way round, the property fails.)     *)
\* the variable the step from p takes for the leaving variable
LeavingVariableOf(p, zeroVariables) ==
  LeavingVariables(p, zeroVariables, PivotRowOf(p), 0, <<>>).found[1]

C26_ZeroSetUpdate ==
  [][(Searching /\ Searching') =>
       /\ PivotColumnOf(Prog) \notin last'.args[1]
       /\ LeavingVariableOf(Prog, last.args[1]) \in last'.args[1]]_vars

\* the statement with the entering variable in the zero set and the
\* leaving variable out of it
C26_AsStated ==
  [][(Searching /\ Searching') =>
       /\ PivotColumnOf(Prog) \in last'.args[1]
       /\ LeavingVariableOf(Prog, last.args[1]) \notin last'.args[1]]_vars

\* the first step has pivoted: variable 0 entered and the basic variable of
\* the first row left
C26_Witness ==
  /\ Searching /\ ops = 1 /\ n = MaxN + MaxM
  /\ 0 \notin last.args[1] /\ MaxN \in last.args[1]

(* C27: when the first search ends with an artificial variable still      *)
(* basic in a row whose entries on the original variables are all 0,      *)
(* solveSimplex removes that row and that column, decreases m and n, goes *)
(* on to the second search and returns a result: no SizeError and no      *)
(* SolutionError is raised.                                               *)
\* formatToIntermediateSimplex after standardize, and the first search
\* after that, as solveSimplex calls them
Formatted(r) ==
  IF r.exc # "none" THEN r ELSE FormatToIntermediateSimplex(GetSnapshot(r.p))

FirstSearched(r) ==
  IF r.exc # "none" THEN r
  ELSE SolveSimplexRecursive(r.p, 0..(r.p.n - r.p.m - 1), 0)

PhaseOne == FirstSearched(Formatted(Standardize(Prog)))

\* the loop over the artificial variables after the first search r
Marked(r) == Cleanup(r.p, r.ret.zero, r.p.n - r.p.m, r.p.n - r.p.m, {}, {})

\* the first search found the program feasible
Feasible(r) ==
  /\ r.exc = "none" /\ r.ret.kind = "set"
  /\ ~QLt(QAdd(r.p.constant, IntermediateObjective(Coefs(r.p), r.ret.zero, 0)), Zero)

\* a row and a column were marked for removal
Redundant(r) ==
  Feasible(r) /\ Marked(r).exc = "none" /\ Marked(r).constraintsToRemove # {}

RedundantRemoved(r, c, res) ==
  /\ res.exc = "none"
  /\ res.p.m = r.p.m - Cardinality(c.constraintsToRemove)
  /\ Len(res.p.constraints) = res.p.m
  /\ res.p.n = r.p.n - r.p.m

C27_RedundantRows ==
  Redundant(PhaseOne) => RedundantRemoved(PhaseOne, Marked(PhaseOne), SolveSimplex(Prog))

(* C28: in every call of solveSimplex, also on a program that is in       *)
(* simplex form on entry, the number k = m the call splits the variables  *)
(* by is the number of artificial variables formatToIntermediateSimplex   *)
(* added during the call, the last k columns are the identity columns of  *)
(* those variables, and the zero set 0..n-k-1 the first search starts     *)
(* from holds exactly the variables that are not artificial.              *)
\* r0 is the outcome of standardize and f that of
\* formatToIntermediateSimplex after it
SplitIsArtificial(r0, f) ==
  (r0.exc = "none" /\ f.exc = "none") =>
    /\ f.p.m = f.p.n - r0.p.n
    /\ \A i \in 1..f.p.m : UnitAt(View(f.p), f.p.n - f.p.m + i - 1, i)
    /\ 0..(f.p.n - f.p.m - 1) = 0..(r0.p.n - 1)

C28_ArtificialCount ==
  SplitIsArtificial(Standardize(Prog), Formatted(Standardize(Prog)))

(* C29: when solveSimplex reaches the second search, the objective row it *)
(* has rebuilt is the standardized objective written over the current     *)
(* basis: every assignment that satisfies the constraints of the second   *)
(* phase gives constant + sum c_j.x_j the value the objective of the      *)
(* snapshot taken after standardize gives it.                             *)
\* every variable outside the zero set is basic in a row of its own, and
\* every row has one
HasBasis(v, zeroVariables) ==
  LET basic == (0..(v.n - 1)) \ zeroVariables
  IN /\ zeroVariables \subseteq 0..(v.n - 1)
     /\ Cardinality(basic) = Len(v.constraints)
     /\ \A i \in 1..Len(v.constraints) : Len(v.constraints[i].coefficients) = v.n
     /\ \A j \in basic : \E i \in 1..Len(v.constraints) : UnitAt(v, j, i)
     /\ \A j1, j2 \in basic : j1 # j2 => BasicRow(v, j1) # BasicRow(v, j2)

\* the solution of the constraints of v in which the zero variables are 0,
\* but for variable e, which is 1 (no variable when e = -1): the value of x_j
PointValue(v, zeroVariables, e, j) ==
  IF j = e THEN One
  ELSE IF j \in zeroVariables THEN Zero
  ELSE IF e = -1 THEN v.constraints[BasicRow(v, j)].value
  ELSE QSub(v.constraints[BasicRow(v, j)].value,
            v.constraints[BasicRow(v, j)].coefficients[e + 1])

\* sum of cs[j].x_j from variable j on
RECURSIVE ObjectiveAt(_, _, _, _, _)
ObjectiveAt(cs, v, zeroVariables, e, j) ==
  IF j >= v.n THEN Zero
  ELSE QAdd(QMul(At(cs, j), PointValue(v, zeroVariables, e, j)),
            ObjectiveAt(cs, v, zeroVariables, e, j + 1))

\* v is the program the second search starts from, s the standardized one
SameObjective(v, s, zeroVariables) ==
  (HasBasis(v, zeroVariables) /\ Len(s.coefficients) = v.n /\ Len(v.coefficients) = v.n) =>
    \A e \in zeroVariables \cup {-1} :
      (\A j \in 0..(v.n - 1) : QLe(Zero, PointValue(v, zeroVariables, e, j))) =>
        QAdd(v.constant, ObjectiveAt(v.coefficients, v, zeroVariables, e, 0)) =
          QAdd(s.constant, ObjectiveAt(s.coefficients, v, zeroVariables, e, 0))

\* r0 is the outcome of standardize, r that of solveSimplex up to the second
\* search
SecondPhaseObjective(r0, r) ==
  (r0.exc = "none" /\ r.exc = "none" /\ r.ret.kind = "pending") =>
    SameObjective(View(r.p), View(r0.p), r.ret.zero)

C29_ReducedCosts == SecondPhaseObjective(Standardize(Prog), SolvePrepared(Prog))

(* C30: throughout a search that starts from a tableau whose constraint   *)
(* values are all >= 0, every constraint value is >= 0 after every pivot  *)
(* step, and the objective constant does not decrease from one pivot step *)
(* to the next.                                                           *)
ValuesNonNegative(v) ==
  \A i \in 1..Len(v.constraints) : QLe(Zero, v.constraints[i].value)

====
